---- MODULE Spec2Model ----
(***************************************************************************)
(* Model of the tab-manager service worker (src/unnamed/part_001, lines    *)
(* 1-608): rule matching, group assignment, duplicate-group merging,       *)
(* window ordering and auto-close timers, together with the part of the    *)
(* host (chrome.tabs / chrome.tabGroups / timers / events) the worker      *)
(* talks to.  Every `await` of the source is one step of a task: the host  *)
(* performs the call and the task runs on to its next `await`.             *)
(***************************************************************************)
EXTENDS Integers, Sequences, FiniteSets, TLC

\* ------------------------------------------------------------------ bounds
MaxWindows == 2
MaxTabs == 3
MaxGroups == 3
MaxPinned == 1
MaxPasses == 2
MaxDedupes == 2
MaxAssigns == 2
MaxClosers == 2
MaxExternal == 1
MaxRules == 2
MaxSeconds == 3

Windows == 1..MaxWindows
TabIds == 1..MaxTabs
GroupIds == 1..MaxGroups
PassIds == 1..MaxPasses
DedupeIds == 1..MaxDedupes
AssignIds == 1..MaxAssigns
CloserIds == 1..MaxClosers
TimerIds == 1..(MaxWindows + MaxTabs + 2)

\* chrome.tabGroups.TAB_GROUP_ID_NONE
TAB_GROUP_ID_NONE == -1

\* no window: the windowId of a tab that is not open
NoWindow == 0

\* no timer handle: Map.get() of a missing key
NoTimer == 0

VARIABLES
  order,              \* host: window -> its tab strip, the tab ids by index
  tabs,               \* host: tab id -> [pinned, groupId, url]
  tabGroups,          \* host: group id -> [title, color]
  storage,            \* chrome.storage.sync: [groupingRules, autoClosePatterns]
  timers,             \* host: the pending setTimeout timers
  events,             \* host events dispatched and not yet handled
  organizingWindows,  \* part_001:17
  organizeTimers,     \* part_001:21, window -> timer handle
  autoCloseTimers,    \* part_001:19, tab -> timer handle
  passes,             \* the organizeWindow invocations that are suspended
  dedupes,            \* the dedupeGroups invocations that are suspended
  assigns,            \* the processTab invocations that are suspended
  closers,            \* the auto-close invocations that are suspended
  budget,             \* external (user) actions still to come
  hist                \* history: what the claims need to remember

vars == <<order, tabs, tabGroups, storage, timers, events, organizingWindows,
          organizeTimers, autoCloseTimers, passes, dedupes, assigns, closers,
          budget, hist>>

\* the tasks of the other functions, which the organizer leaves alone
otherTasks == <<dedupes, assigns, closers>>

\* ------------------------------------------------------- sequence helpers
Range(s) == {s[i] : i \in 1..Len(s)}

\* 0-based index of x in s, as Array.prototype.indexOf; -1 when absent
IndexOf(s, x) ==
  IF x \in Range(s) THEN (CHOOSE i \in 1..Len(s) : s[i] = x /\ \A j \in 1..(i-1) : s[j] # x) - 1
  ELSE -1

Without(s, S) == SelectSeq(s, LAMBDA x : x \notin S)

\* s with the block b inserted so that its first element gets 0-based index i
InsertAt(s, i, b) == SubSeq(s, 1, i) \o b \o SubSeq(s, i + 1, Len(s))

Min(S) == CHOOSE x \in S : \A y \in S : x <= y

\* ------------------------------------------------------------ rule matching
\* Strings the worker takes apart (host names, paths, patterns) are sequences
\* of one-character strings.  A URL is what `new URL(url)` makes of it:
\* protocol, hostname and pathname; NoUrl is a tab without url or pendingUrl.
Url(protocol, hostname, pathname) ==
  [protocol |-> protocol, hostname |-> hostname, pathname |-> pathname]
NoUrl == Url("", <<>>, <<>>)

\* null, the result of a failed extraction or lookup
Null == <<"null">>

\* String.prototype.toLowerCase on the letters of the model
toLowerCase(s) ==
  [i \in 1..Len(s) |-> CASE s[i] = "A" -> "a" [] s[i] = "B" -> "b" [] s[i] = "C" -> "c"
                         [] OTHER -> s[i]]

startsWith(s, p) == Len(p) <= Len(s) /\ SubSeq(s, 1, Len(p)) = p
endsWith(s, p) == Len(p) <= Len(s) /\ SubSeq(s, Len(s) - Len(p) + 1, Len(s)) = p

\* String.prototype.trim
RECURSIVE trim(_)
trim(s) ==
  IF s = <<>> THEN s
  ELSE IF s[1] = " " THEN trim(Tail(s))
  ELSE IF s[Len(s)] = " " THEN trim(SubSeq(s, 1, Len(s) - 1))
  ELSE s

\* mutant of getHostFromUrl: the protocol is not looked at
getHostFromUrl_AnyProtocol(url) == toLowerCase(url.hostname)

\* part_001:112-120
getHostFromUrl(url) ==
  IF url.protocol \notin {"http:", "https:"} THEN Null ELSE toLowerCase(url.hostname)

\* part_001:127-135
getPathFromUrl(url) ==
  IF url.protocol \notin {"http:", "https:"} THEN Null
  ELSE IF url.pathname = <<>> THEN <<"/">> ELSE url.pathname

\* part_001:145-155
patternMatchesHost(pattern, host) ==
  IF pattern = <<>> \/ host = <<>> THEN FALSE
  ELSE LET p == toLowerCase(pattern)
           h == toLowerCase(host)
       IN IF startsWith(p, <<"*", ".">>)
          THEN endsWith(h, <<".">> \o SubSeq(p, 3, Len(p)))
          ELSE h = p

\* part_001:161-172: the anchored RegExp of a glob, every character but '*'
\* escaped to itself and '*' turned into '.*', tested against path
RECURSIVE globToRegExp(_, _)
globToRegExp(glob, path) ==
  IF glob = <<>> THEN path = <<>>
  ELSE IF glob[1] = "*"
       THEN \E k \in 0..Len(path) : globToRegExp(Tail(glob), SubSeq(path, k + 1, Len(path)))
       ELSE path # <<>> /\ path[1] = glob[1] /\ globToRegExp(Tail(glob), Tail(path))

\* mutant of PathEquals: a path that begins with the suffix is taken
PathEquals_Prefix(path, pathPattern) == startsWith(path, pathPattern)

\* part_001:200: path === pathPattern
PathEquals(path, pathPattern) == path = pathPattern

\* part_001:189-201
patternMatchesUrl(pattern, host, pathname) ==
  IF pattern = <<>> \/ host = <<>> \/ host = Null THEN FALSE
  ELSE LET slashIdx == IndexOf(pattern, "/")
           hostPattern == IF slashIdx >= 0 THEN SubSeq(pattern, 1, slashIdx) ELSE pattern
           pathPattern == IF slashIdx >= 0 THEN SubSeq(pattern, slashIdx + 1, Len(pattern))
                          ELSE Null
           path == IF pathname = <<>> THEN <<"/">> ELSE pathname
       IN IF ~patternMatchesHost(hostPattern, host) THEN FALSE
          ELSE IF pathPattern = Null THEN TRUE
          ELSE IF "*" \in Range(pathPattern) THEN globToRegExp(pathPattern, path)
          ELSE PathEquals(path, pathPattern)

\* ALLOWED_GROUP_COLORS and normalizeColor, part_001:102-104
ALLOWED_GROUP_COLORS ==
  {"grey", "blue", "red", "yellow", "green", "pink", "purple", "cyan", "orange"}
normalizeColor(color) == IF color \in ALLOWED_GROUP_COLORS THEN color ELSE "grey"

\* no rule matches
NoMatch == [title |-> "", color |-> ""]

\* mutant of FirstHit: the last group with a matching pattern wins
FirstHit_Last(hits) == CHOOSE i \in hits : \A j \in hits : j <= i

\* part_001:212-216: the loop over the groups returns at the first group with
\* a matching pattern
FirstHit(hits) == Min(hits)

\* part_001:210-221: title and color of the first group with a matching
\* pattern
findMatchingGroup(host, pathname, groups) ==
  IF host = Null \/ host = <<>> THEN NoMatch
  ELSE LET hits == {i \in 1..Len(groups) :
                      /\ groups[i].title # ""
                      /\ \E j \in 1..Len(groups[i].patterns) :
                           patternMatchesUrl(groups[i].patterns[j], host, pathname)}
       IN IF hits = {} THEN NoMatch
          ELSE [title |-> groups[FirstHit(hits)].title,
                color |-> normalizeColor(groups[FirstHit(hits)].color)]

\* The entries of a stored groupingRules array: null, or an object that
\* has the array patterns (new schema), the string pattern (legacy schema)
\* or neither; a title is a sequence of characters (empty when the property
\* is missing), a color a string.
NullEntry == [type |-> "null"]
IsNull(e) == "type" \in DOMAIN e
HasPatterns(e) == "patterns" \in DOMAIN e
HasPattern(e) == "pattern" \in DOMAIN e

\* the string of a sequence of characters
RECURSIVE Text(_)
Text(s) == IF s = <<>> THEN "" ELSE s[1] \o Text(Tail(s))

\* part_001:40: data[0] && Array.isArray(data[0].patterns)
NewSchema(data) == ~IsNull(data[1]) /\ HasPatterns(data[1])

\* part_001:41-45: the new-schema entries, normalised and filtered
NormalizeGroups(data) ==
  SelectSeq([i \in 1..Len(data) |->
               [title |-> trim(data[i].title),
                color |-> normalizeColor(data[i].color),
                patterns |-> IF HasPatterns(data[i])
                             THEN SelectSeq(data[i].patterns, LAMBDA q : q # <<>>)
                             ELSE <<>>]],
            LAMBDA g : g.title # <<>> /\ g.patterns # <<>>)

\* mutant of PreferColor: the color of the last record of the title wins
PreferColor_Last(old, color) == color

\* part_001:59: the first color of the title that is not the default stays
PreferColor(old, color) == IF old = "grey" /\ color # "grey" THEN color ELSE old

\* part_001:48-60: the legacy records merged by title, in the order the
\* titles and the patterns of a title are first seen
RECURSIVE MigrateLegacy(_, _)
MigrateLegacy(data, byTitle) ==
  IF data = <<>> THEN byTitle
  ELSE LET r == Head(data)
       IN IF IsNull(r) \/ ~HasPattern(r) THEN MigrateLegacy(Tail(data), byTitle)
          ELSE LET title == IF trim(r.title) # <<>> THEN trim(r.title) ELSE r.pattern
                   color == normalizeColor(r.color)
                   has == \E i \in 1..Len(byTitle) : byTitle[i].title = title
                   m1 == IF has THEN byTitle
                         ELSE Append(byTitle, [title |-> title, color |-> color,
                                               patterns |-> <<>>])
                   k == CHOOSE i \in 1..Len(m1) : m1[i].title = title
                   g == m1[k]
                   g2 == [g EXCEPT !.patterns = IF r.pattern \in Range(@) THEN @
                                                ELSE Append(@, r.pattern),
                                   !.color = PreferColor(@, color)]
               IN MigrateLegacy(Tail(data), [m1 EXCEPT ![k] = g2])

\* part_001:41: g.title of a null entry throws
getGroupsThrows(data) ==
  data # <<>> /\ NewSchema(data) /\ \E i \in 1..Len(data) : IsNull(data[i])

\* getGroups, part_001:35-68, on the stored groupingRules: the groups as
\* they are stored (titles as sequences of characters)
StoredGroups(data) ==
  IF data = <<>> THEN <<>>
  ELSE IF NewSchema(data) THEN NormalizeGroups(data)
  ELSE MigrateLegacy(data, <<>>)

\* the groups getGroups returns
getGroups(groupingRules) ==
  LET gs == StoredGroups(groupingRules)
  IN [i \in 1..Len(gs) |-> [gs[i] EXCEPT !.title = Text(@)]]

\* part_001:61-66: the array stored after the call, the merged groups
\* written back when the legacy branch was taken
WrittenBack(data) ==
  IF data # <<>> /\ ~NewSchema(data) THEN MigrateLegacy(data, <<>>) ELSE data

\* The values a stored delay can have: undefined (the property is missing),
\* null, a number (in tenths, so that fractions can be stored) or a string.
Undefined == [type |-> "undefined", tenths |-> 0, text |-> <<>>]
JsNull == [type |-> "null", tenths |-> 0, text |-> <<>>]
Num(tenths) == [type |-> "number", tenths |-> tenths, text |-> <<>>]
Str(text) == [type |-> "string", tenths |-> 0, text |-> text]

\* a number that is not finite
NaN == [finite |-> FALSE, tenths |-> 0]
Finite(tenths) == [finite |-> TRUE, tenths |-> tenths]

Digits == [c \in {"0", "1", "2", "3", "4", "5", "6", "7", "8", "9"} |->
             CASE c = "0" -> 0 [] c = "1" -> 1 [] c = "2" -> 2 [] c = "3" -> 3
               [] c = "4" -> 4 [] c = "5" -> 5 [] c = "6" -> 6 [] c = "7" -> 7
               [] c = "8" -> 8 [] c = "9" -> 9]

RECURSIVE DecimalValue(_)
DecimalValue(s) ==
  IF s = <<>> THEN 0 ELSE 10 * DecimalValue(SubSeq(s, 1, Len(s) - 1)) + Digits[s[Len(s)]]

\* Number(v), part_001:86: undefined is NaN, null is 0, a string is the
\* number its trimmed text spells (the empty text spells 0), else NaN; the
\* strings of the model spell whole numbers without sign, or no number
Number(v) ==
  CASE v.type = "undefined" -> NaN
    [] v.type = "null" -> Finite(0)
    [] v.type = "number" -> Finite(v.tenths)
    [] v.type = "string" ->
         LET t == trim(v.text)
         IN IF \A i \in 1..Len(t) : t[i] \in DOMAIN Digits
            THEN Finite(10 * DecimalValue(t)) ELSE NaN

\* part_001:86: it.delaySeconds ?? it.delay
Coalesce(a, b) == IF a.type \in {"undefined", "null"} THEN b ELSE a

\* mutant of Clamp: the delay is not limited
Clamp_Unlimited(d) == d

\* part_001:88: Math.min(10, Math.max(1, d))
Clamp(d) == IF d < 1 THEN 1 ELSE IF d > 10 THEN 10 ELSE d

\* getAutoCloseRules, part_001:75-96, on the stored autoClosePatterns: an
\* entry is a legacy string (kind "string") or a record (kind "object") with
\* a pattern and the properties delaySeconds and delay, or something else
\* (kind "other"); patterns are trimmed, entries with an empty pattern and
\* other entries dropped, delays floored and clamped to 1..10.
AutoCloseRule(it) ==
  [pattern |-> IF it.kind \in {"string", "object"} THEN trim(it.pattern) ELSE <<>>,
   delaySeconds |-> IF it.kind = "string" THEN 1
                    ELSE LET d == Number(Coalesce(it.delaySeconds, it.delay))
                         IN IF ~d.finite THEN 1 ELSE Clamp(d.tenths \div 10)]

getAutoCloseRules(autoClosePatterns) ==
  SelectSeq([i \in 1..Len(autoClosePatterns) |-> AutoCloseRule(autoClosePatterns[i])],
            LAMBDA r : r.pattern # <<>>)

\* no rule found: the undefined of Array.prototype.find
NoRule == [pattern |-> <<>>, delaySeconds |-> 0]

\* part_001:238 and 254: rules.find(r => patternMatchesUrl(r.pattern, host, path))
FindRule(rules, host, path) ==
  LET hits == {i \in 1..Len(rules) : patternMatchesUrl(rules[i].pattern, host, path)}
  IN IF host = Null \/ hits = {} THEN NoRule ELSE rules[Min(hits)]

\* part_001:262: Math.max(1000, (Number(match.delaySeconds) || 1) * 1000)
AutoCloseDelay(match) ==
  LET ms == (IF match.delaySeconds = 0 THEN 1 ELSE match.delaySeconds) * 1000
  IN IF ms < 1000 THEN 1000 ELSE ms

\* ------------------------------------------------------------- host state
ClosedTab == [pinned |-> FALSE, groupId |-> TAB_GROUP_ID_NONE, url |-> NoUrl]
NoGroup == [title |-> "", color |-> "grey"]

OpenTabs(ord) == UNION {Range(ord[w]) : w \in Windows}

WindowOf(ord, t) ==
  IF t \in OpenTabs(ord) THEN CHOOSE w \in Windows : t \in Range(ord[w]) ELSE NoWindow

\* chrome.tabs.query({groupId}): the open tabs of group g, by index
TabsOfGroup(ord, tb, g) ==
  LET ws == {w \in Windows : \E t \in Range(ord[w]) : tb[t].groupId = g}
  IN IF ws = {} THEN <<>>
     ELSE SelectSeq(ord[CHOOSE w \in ws : TRUE], LAMBDA t : tb[t].groupId = g)

\* the host keeps a group exactly as long as it has a tab
GroupExists(ord, tb, g) == \E t \in OpenTabs(ord) : tb[t].groupId = g

GroupWindow(ord, tb, g) ==
  IF GroupExists(ord, tb, g)
  THEN WindowOf(ord, CHOOSE t \in OpenTabs(ord) : tb[t].groupId = g)
  ELSE NoWindow

\* chrome.tabGroups.query({windowId}): the ids of the groups of window w
GroupsOfWindow(ord, tb, w) == {tb[t].groupId : t \in Range(ord[w])} \ {TAB_GROUP_ID_NONE}

PinnedCount(ord, tb, w) == Cardinality({t \in Range(ord[w]) : tb[t].pinned})

GroupAt(s, tb, i) == IF i \in 1..Len(s) THEN tb[s[i]].groupId ELSE TAB_GROUP_ID_NONE

\* group records of groups that lost their last tab are dropped by the host
Collect(ord, tb, tg) ==
  [g \in GroupIds |-> IF GroupExists(ord, tb, g) THEN tg[g] ELSE NoGroup]

\* The strips the host can show: pinned tabs first and ungrouped, every
\* group contiguous, every open tab in one strip once.
HostOk(ord, tb) ==
  /\ \A w \in Windows : \A i, j \in 1..Len(ord[w]) :
        /\ (i # j => ord[w][i] # ord[w][j])
        /\ (i < j /\ tb[ord[w][j]].pinned => tb[ord[w][i]].pinned)
        /\ (tb[ord[w][i]].pinned => tb[ord[w][i]].groupId = TAB_GROUP_ID_NONE)
        /\ (i < j /\ tb[ord[w][i]].groupId = tb[ord[w][j]].groupId
                  /\ tb[ord[w][i]].groupId # TAB_GROUP_ID_NONE
              => \A k \in i..j : tb[ord[w][k]].groupId = tb[ord[w][i]].groupId)
  /\ \A w1, w2 \in Windows : w1 # w2 => Range(ord[w1]) \cap Range(ord[w2]) = {}
  /\ \A g \in GroupIds : Cardinality({w \in Windows : g \in GroupsOfWindow(ord, tb, w)}) <= 1

\* chrome.tabs.Tab: the tab t as a call or an event hands it to the worker
NoTabInfo ==
  [id |-> 0, windowId |-> NoWindow, pinned |-> FALSE, groupId |-> TAB_GROUP_ID_NONE,
   url |-> NoUrl]
TabInfo(ord, tb, t) ==
  [id |-> t, windowId |-> WindowOf(ord, t), pinned |-> tb[t].pinned,
   groupId |-> tb[t].groupId, url |-> tb[t].url]

\* A dispatched host event with the part of its payload the listener reads:
\* the window, the tab id, the group as it is at dispatch (group updated),
\* the tab as it is at dispatch and what changed (tab created / updated);
\* 0, NoGroupInfo, NoTabInfo and "" where the listener reads none.
NoGroupInfo == [id |-> TAB_GROUP_ID_NONE, title |-> "", color |-> ""]
GroupInfo(tg, g) == [id |-> g, title |-> tg[g].title, color |-> tg[g].color]
Event(type, w, t, group) ==
  [type |-> type, windowId |-> w, tabId |-> t, group |-> group,
   tab |-> NoTabInfo, change |-> ""]
TabEvent(type, ord, tb, t, change) ==
  [type |-> type, windowId |-> WindowOf(ord, t), tabId |-> t, group |-> NoGroupInfo,
   tab |-> TabInfo(ord, tb, t), change |-> change]

\* ------------------------------------------------- host: chrome.tabs.move
\* chrome.tabs.move(t, {index}) on the strip s: the index is constrained to the
\* tab's side of the pinned boundary, a tab already there is left alone, and
\* after the move the host keeps groups contiguous: a tab dropped between two
\* tabs of one group joins it, a tab taken away from its (larger) group
\* leaves it.
MoveTabInStrip(s, tb, t, index) ==
  LET n == Len(s)
      from == IndexOf(s, t)
      p == Cardinality({x \in Range(s) : tb[x].pinned})
      lo == IF tb[t].pinned THEN 0 ELSE p
      hi == IF tb[t].pinned THEN p - 1 ELSE n - 1
      req == IF index < 0 \/ index > n - 1 THEN n - 1 ELSE index
      to == IF req < lo THEN lo ELSE IF req > hi THEN hi ELSE req
      s2 == InsertAt(Without(s, {t}), to, <<t>>)
      old == tb[t].groupId
      left == GroupAt(s2, tb, to)
      right == GroupAt(s2, tb, to + 2)
      size == Cardinality({x \in Range(s) : tb[x].groupId = old})
      newg == IF old # left /\ old # right
              THEN IF left = right /\ left # TAB_GROUP_ID_NONE THEN left
                   ELSE IF old # TAB_GROUP_ID_NONE /\ size > 1 THEN TAB_GROUP_ID_NONE
                   ELSE old
              ELSE old
  IN IF from = to THEN [strip |-> s, groupId |-> old, moved |-> FALSE]
     ELSE [strip |-> s2, groupId |-> newg, moved |-> TRUE]

\* The host's answer to chrome.tabs.move(t, {index}): an error when the tab
\* is not open.
HostMoveTab(ord, tb, tg, t, index) ==
  LET w == WindowOf(ord, t)
  IN IF w = NoWindow
     THEN [ok |-> FALSE, order |-> ord, tabs |-> tb, tabGroups |-> tg, events |-> {}]
     ELSE LET r == MoveTabInStrip(ord[w], tb, t, index)
              ord2 == [ord EXCEPT ![w] = r.strip]
              tb2 == [tb EXCEPT ![t].groupId = r.groupId]
          IN [ok |-> TRUE, order |-> ord2, tabs |-> tb2,
              tabGroups |-> Collect(ord2, tb2, tg),
              events |-> IF r.moved THEN {Event("tabs.onMoved", w, 0, NoGroupInfo)} ELSE {}]

\* -------------------------------------------- host: chrome.tabGroups.move
\* chrome.tabGroups.move(g, {index}): the group's tabs are taken out and put
\* back as a block whose first tab gets the index; a group already there is
\* left alone; an index among the pinned tabs or inside another group is an
\* error, as is a group that does not exist.
HostMoveGroup(ord, tb, tg, g, index) ==
  LET w == GroupWindow(ord, tb, g)
      fail == [ok |-> FALSE, order |-> ord, tabs |-> tb, tabGroups |-> tg, events |-> {}]
  IN IF w = NoWindow THEN fail
     ELSE LET s == ord[w]
              blk == SelectSeq(s, LAMBDA x : tb[x].groupId = g)
              rest == Without(s, Range(blk))
              start == IndexOf(s, blk[1])
              max == Len(s) - Len(blk)
              to == IF index < 0 \/ index > max THEN max ELSE index
              p == PinnedCount(ord, tb, w)
          IN IF to = start
             THEN [ok |-> TRUE, order |-> ord, tabs |-> tb, tabGroups |-> tg, events |-> {}]
             ELSE IF to < p THEN fail
             ELSE IF GroupAt(rest, tb, to) # TAB_GROUP_ID_NONE
                     /\ GroupAt(rest, tb, to) = GroupAt(rest, tb, to + 1) THEN fail
             ELSE [ok |-> TRUE, order |-> [ord EXCEPT ![w] = InsertAt(rest, to, blk)],
                   tabs |-> tb, tabGroups |-> tg,
                   events |-> {Event("tabGroups.onMoved", w, 0, NoGroupInfo)}]

\* ------------------------------------------------ host: chrome.tabs.group
\* chrome.tabs.group({tabIds, groupId}): every tab of ids that is not yet in
\* group g joins it; tabs left of the group are put right before it, tabs
\* right of it (or of another window) right behind it, each side keeping its
\* order; a pinned tab is unpinned.  An error, with nothing done, when the
\* group or one of the tabs does not exist.
HostGroupTabs(ord, tb, tg, ids, g) ==
  LET w == GroupWindow(ord, tb, g)
      fail == [ok |-> FALSE, order |-> ord, tabs |-> tb, tabGroups |-> tg, events |-> {}]
  IN IF w = NoWindow \/ \E i \in 1..Len(ids) : ids[i] \notin OpenTabs(ord) THEN fail
     ELSE LET s == ord[w]
              members == SelectSeq(s, LAMBDA t : tb[t].groupId = g)
              first == IndexOf(s, members[1])
              add == Range(ids) \ Range(members)
              left == SelectSeq(s, LAMBDA t : t \in add /\ IndexOf(s, t) < first)
              right == SelectSeq(s, LAMBDA t : t \in add /\ IndexOf(s, t) > first)
              far == SelectSeq(ids, LAMBDA t : t \in add /\ WindowOf(ord, t) # w)
              blk == left \o members \o right \o far
              before == SelectSeq(s, LAMBDA t : t \notin Range(blk) /\ IndexOf(s, t) < first)
              s2 == InsertAt(Without(s, Range(blk)), Len(before), blk)
              ord2 == [v \in Windows |-> IF v = w THEN s2 ELSE Without(ord[v], add)]
              tb2 == [t \in TabIds |->
                        IF t \in add THEN [tb[t] EXCEPT !.groupId = g, !.pinned = FALSE]
                        ELSE tb[t]]
          IN [ok |-> TRUE, order |-> ord2, tabs |-> tb2,
              tabGroups |-> Collect(ord2, tb2, tg),
              events |-> IF s2 # s THEN {Event("tabs.onMoved", w, 0, NoGroupInfo)} ELSE {}]

\* chrome.tabs.group({tabIds: [t]}) making the new group g: the tab becomes
\* the only tab of g, unpinned; a tab that was pinned or had tabs of its old
\* group to its right is moved right, past the pinned tabs or that group.
\* tabGroups.onCreated is dispatched.  An error when the tab is not open.
HostGroupNew(ord, tb, tg, t, g) ==
  IF t \notin OpenTabs(ord)
  THEN [ok |-> FALSE, order |-> ord, tabs |-> tb, tabGroups |-> tg, events |-> {}]
  ELSE LET w == WindowOf(ord, t)
           s == ord[w]
           i == IndexOf(s, t) + 1
           old == tb[t].groupId
           stay == {j \in i..Len(s) :
                      IF tb[t].pinned THEN ~tb[s[j]].pinned \/ j = Len(s)
                      ELSE old = TAB_GROUP_ID_NONE \/ GroupAt(s, tb, j + 1) # old}
           j == Min(stay)
           dest == IF tb[t].pinned /\ ~tb[s[j]].pinned THEN j - 1 ELSE j
           s2 == InsertAt(Without(s, {t}), dest - 1, <<t>>)
           ord2 == [ord EXCEPT ![w] = s2]
           tb2 == [tb EXCEPT ![t].groupId = g, ![t].pinned = FALSE]
       IN [ok |-> TRUE, order |-> ord2, tabs |-> tb2,
           tabGroups |-> [Collect(ord2, tb2, tg) EXCEPT ![g] = NoGroup],
           events |-> {Event("tabGroups.onCreated", w, 0, NoGroupInfo)}
                      \cup IF s2 # s THEN {Event("tabs.onMoved", w, 0, NoGroupInfo)} ELSE {}]

\* ---------------------------------------------- host: chrome.tabs.ungroup
\* chrome.tabs.ungroup(t): the tab leaves its group and is moved to the
\* nearer edge of it, left when it is in the first half; an error when the
\* tab is not open, nothing to do when it is in no group.
HostUngroup(ord, tb, tg, t) ==
  IF t \notin OpenTabs(ord)
  THEN [ok |-> FALSE, order |-> ord, tabs |-> tb, tabGroups |-> tg, events |-> {}]
  ELSE IF tb[t].groupId = TAB_GROUP_ID_NONE
  THEN [ok |-> TRUE, order |-> ord, tabs |-> tb, tabGroups |-> tg, events |-> {}]
  ELSE LET w == WindowOf(ord, t)
           s == ord[w]
           members == SelectSeq(s, LAMBDA x : tb[x].groupId = tb[t].groupId)
           first == IndexOf(s, members[1])
           mid == first + (Len(members) \div 2)
           dest == IF IndexOf(s, t) < mid THEN first ELSE first + Len(members) - 1
           s2 == InsertAt(Without(s, {t}), dest, <<t>>)
           ord2 == [ord EXCEPT ![w] = s2]
           tb2 == [tb EXCEPT ![t].groupId = TAB_GROUP_ID_NONE]
       IN [ok |-> TRUE, order |-> ord2, tabs |-> tb2, tabGroups |-> Collect(ord2, tb2, tg),
           events |-> IF s2 # s THEN {Event("tabs.onMoved", w, 0, NoGroupInfo)} ELSE {}]

\* ----------------------------------------------- host: chrome.tabs.remove
\* chrome.tabs.remove(t), or the user closing the tab: the tab is gone and
\* tabs.onRemoved is dispatched (the window stays); an error when the tab is
\* not open.
HostRemoveTab(ord, tb, tg, t) ==
  IF t \notin OpenTabs(ord)
  THEN [ok |-> FALSE, order |-> ord, tabs |-> tb, tabGroups |-> tg, events |-> {}]
  ELSE LET w == WindowOf(ord, t)
           ord2 == [ord EXCEPT ![w] = Without(@, {t})]
           tb2 == [tb EXCEPT ![t] = ClosedTab]
       IN [ok |-> TRUE, order |-> ord2, tabs |-> tb2, tabGroups |-> Collect(ord2, tb2, tg),
           events |-> {Event("tabs.onRemoved", w, t, NoGroupInfo)}]

\* ------------------------------------------------------- host: pinning
\* The tab is pinned (chrome.tabs.update(t, {pinned: true}) or the user): it
\* leaves its group and goes to the end of the pinned tabs; tabs.onUpdated
\* is dispatched, and tabs.onMoved when the tab changed place.
HostPinTab(ord, tb, tg, t) ==
  LET w == WindowOf(ord, t)
      s == ord[w]
      s2 == InsertAt(Without(s, {t}), PinnedCount(ord, tb, w), <<t>>)
      ord2 == [ord EXCEPT ![w] = s2]
      tb2 == [tb EXCEPT ![t].pinned = TRUE, ![t].groupId = TAB_GROUP_ID_NONE]
  IN [ok |-> TRUE, order |-> ord2, tabs |-> tb2, tabGroups |-> Collect(ord2, tb2, tg),
      events |-> {TabEvent("tabs.onUpdated", ord2, tb2, t, "pinned")}
                 \cup IF s2 # s THEN {Event("tabs.onMoved", w, 0, NoGroupInfo)} ELSE {}]

\* -------------------------------------------- host: chrome.tabGroups.update
\* a property the update object does not carry
Absent == "(absent)"

\* chrome.tabGroups.update(g, {title, color}): the properties given are set
\* and tabGroups.onUpdated is dispatched with the group as it is then; an
\* error when the group does not exist.
HostUpdateGroup(ord, tb, tg, g, title, color) ==
  IF ~GroupExists(ord, tb, g)
  THEN [ok |-> FALSE, order |-> ord, tabs |-> tb, tabGroups |-> tg, events |-> {}]
  ELSE LET tg2 == [tg EXCEPT ![g].title = IF title = Absent THEN @ ELSE title,
                             ![g].color = IF color = Absent THEN @ ELSE color]
       IN [ok |-> TRUE, order |-> ord, tabs |-> tb, tabGroups |-> tg2,
           events |-> {Event("tabGroups.onUpdated", GroupWindow(ord, tb, g), 0,
                             GroupInfo(tg2, g))}]

\* ------------------------------------------------------------------ timers
\* A pending setTimeout: its handle, whose callback it is ("organize" for
\* part_001:384, "autoClose" for part_001:245), the window or tab the callback
\* closes over and the delay in ms.  lateRequest and coalesced are history:
\* the timer was set while a pass of its window was running / it replaced a
\* pending timer; elapsed is the time in seconds since setTimeout, and
\* sinceCall (history) the time since the call that set the timer began.
Timer(id, kind, key, delay, late, coalesced) ==
  [id |-> id, kind |-> kind, key |-> key, delay |-> delay,
   lateRequest |-> late, coalesced |-> coalesced, elapsed |-> 0, sinceCall |-> 0]

\* handles in use: a new setTimeout returns none of these
UsedHandles(tm, ot, at) ==
  {x.id : x \in tm} \cup (({ot[w] : w \in Windows} \cup {at[t] : t \in TabIds}) \ {NoTimer})

CanSetTimeout(tm, ot, at) == TimerIds \ UsedHandles(tm, ot, at) # {}

setTimeout(tm, ot, at) == Min(TimerIds \ UsedHandles(tm, ot, at))

clearTimeout(tm, id) == {x \in tm : x.id # id}

\* the debounce of part_001:387, in ms
DebounceMs == 200

\* mutant of CancelPending: the pending timer is left to fire
CancelPending_Forgotten(tm, ot, w) == tm

\* part_001:381-383: a pending timer of the window is cancelled
CancelPending(tm, ot, w) == IF ot[w] # NoTimer THEN clearTimeout(tm, ot[w]) ELSE tm

\* scheduleOrganizeWindow(w), part_001:380-389: the timers and the
\* organizeTimers map after the call
scheduleOrganizeWindow(tm, ot, at, ow, w) ==
  LET tm1 == CancelPending(tm, ot, w)
      id == setTimeout(tm1, [ot EXCEPT ![w] = NoTimer], at)
  IN [timers |-> tm1 \cup {Timer(id, "organize", w, DebounceMs, w \in ow,
                                 ot[w] # NoTimer)},
      organizeTimers |-> [ot EXCEPT ![w] = id]]

\* ---------------------------------------------------------- organizeWindow
\* An organizeWindow invocation, part_001:309-374.  pc is the await it is
\* suspended on; orderedGroups, ungroupedTabs and currentIndex are its locals.
\* The other fields are history: another actor changed the window during the
\* pass (interleaved), a group move failed (aborted), the request was made
\* during a pass (lateRequest), the strip at the snapshot (snapshot) and
\* whether it was out of order (unorderedAtStart), a move of the pass changed
\* a position (moved), the pass started on a window of hist.organized (second).
IdlePass == [pc |-> "idle", windowId |-> NoWindow, orderedGroups |-> <<>>,
             ungroupedTabs |-> <<>>, currentIndex |-> 0,
             interleaved |-> FALSE, aborted |-> FALSE, lateRequest |-> FALSE,
             unorderedAtStart |-> FALSE, snapshot |-> <<>>, moved |-> FALSE,
             second |-> FALSE]

Running(ps, w) == {p \in PassIds : ps[p].pc # "idle" /\ ps[p].windowId = w}

\* No ungrouped unpinned tab of the strip stands before a grouped tab.
Ordered(s, tb) ==
  \A i, j \in 1..Len(s) :
     i < j /\ tb[s[j]].groupId # TAB_GROUP_ID_NONE
       => tb[s[i]].pinned \/ tb[s[i]].groupId # TAB_GROUP_ID_NONE

\* mutant of AdvanceIndex: the index is not advanced past a placed group
AdvanceIndex_Stuck(currentIndex, n) == currentIndex

\* part_001:351, currentIndex += groupTabs.length
AdvanceIndex(currentIndex, n) == currentIndex + n

\* mutant of AlreadyOrganizing: the guard never turns a call away
AlreadyOrganizing_Never(ow, w) == FALSE

\* part_001:310, the re-entrancy guard
AlreadyOrganizing(ow, w) == w \in ow

\* mutant of SortByFirstIndex: the group met last comes first
RECURSIVE SortByFirstIndex_Descending(_)
SortByFirstIndex_Descending(q) ==
  IF q = <<>> THEN <<>>
  ELSE LET m == CHOOSE i \in 1..Len(q) : \A j \in 1..Len(q) : q[i].firstIndex >= q[j].firstIndex
       IN <<q[m]>> \o SortByFirstIndex_Descending(SubSeq(q, 1, m - 1) \o SubSeq(q, m + 1, Len(q)))

\* part_001:337-338, orderedGroups.sort((a, b) => a.firstIndex - b.firstIndex)
RECURSIVE SortByFirstIndex(_)
SortByFirstIndex(q) ==
  IF q = <<>> THEN <<>>
  ELSE LET m == CHOOSE i \in 1..Len(q) :
                  /\ \A j \in 1..Len(q) : q[i].firstIndex <= q[j].firstIndex
                  /\ \A j \in 1..(i - 1) : q[j].firstIndex # q[i].firstIndex
       IN <<q[m]>> \o SortByFirstIndex(SubSeq(q, 1, m - 1) \o SubSeq(q, m + 1, Len(q)))

\* part_001:322-335: the groups of the unpinned tabs with the index of their
\* first tab, in the order met
RECURSIVE SeenGroups(_, _, _)
SeenGroups(q, tb, seen) ==
  IF q = <<>> THEN <<>>
  ELSE LET t == Head(q)
           g == tb[t.id].groupId
       IN IF g # TAB_GROUP_ID_NONE /\ g \notin seen
          THEN <<[id |-> g, firstIndex |-> t.index]>> \o SeenGroups(Tail(q), tb, seen \cup {g})
          ELSE SeenGroups(Tail(q), tb, seen)

\* chrome.tabs.query({windowId}) as sorted at part_001:316: the tabs of the
\* window with their index
QueryWindow(ord, w) == [i \in 1..Len(ord[w]) |-> [id |-> ord[w][i], index |-> i - 1]]

\* where a pass goes on after its snapshot or after a group
AfterGroups(og, ut) ==
  IF og # <<>> THEN "moveGroup" ELSE IF ut # <<>> THEN "moveTab" ELSE "finally"

\* every running pass of window w has seen another actor change the window
Disturb(ps, w) ==
  [p \in PassIds |-> IF ps[p].pc # "idle" /\ ps[p].windowId = w
                     THEN [ps[p] EXCEPT !.interleaved = TRUE] ELSE ps[p]]

\* The debounce timer of a window fires, part_001:384-387: the map entry is
\* deleted and organizeWindow is called; it returns at once when the window
\* is being organized (part_001:310), else it flags the window (311) and
\* issues chrome.tabs.query (314).
OrganizeTimerFires(x) ==
  /\ x \in timers /\ x.kind = "organize"
  /\ timers' = timers \ {x}
  /\ organizeTimers' = [organizeTimers EXCEPT ![x.key] = NoTimer]
  /\ IF AlreadyOrganizing(organizingWindows, x.key)
     THEN /\ UNCHANGED <<organizingWindows, passes>>
          /\ hist' = [hist EXCEPT !.dropped = TRUE]
     ELSE /\ \E p \in PassIds :
               /\ passes[p].pc = "idle"
               /\ \A q \in PassIds : passes[q].pc = "idle" => p <= q
               /\ passes' = [passes EXCEPT ![p] =
                     [IdlePass EXCEPT !.pc = "query", !.windowId = x.key,
                                      !.lateRequest = x.lateRequest]]
          /\ organizingWindows' = organizingWindows \cup {x.key}
          /\ UNCHANGED hist
  /\ UNCHANGED <<order, tabs, tabGroups, storage, events, autoCloseTimers, budget, otherTasks>>

\* chrome.tabs.query({windowId}) answers, part_001:314-340
PassQuery(p) ==
  /\ passes[p].pc = "query"
  /\ LET w == passes[p].windowId
         all == QueryWindow(order, w)
         pinnedTabs == SelectSeq(all, LAMBDA t : tabs[t.id].pinned)
         unpinnedTabs == SelectSeq(all, LAMBDA t : ~tabs[t.id].pinned)
         og == SortByFirstIndex(SeenGroups(unpinnedTabs, tabs, {}))
         ut == SelectSeq(unpinnedTabs, LAMBDA t : tabs[t.id].groupId = TAB_GROUP_ID_NONE)
     IN passes' = [passes EXCEPT ![p].orderedGroups = [i \in 1..Len(og) |-> og[i].id],
                                 ![p].ungroupedTabs = [i \in 1..Len(ut) |-> ut[i].id],
                                 ![p].currentIndex = Len(pinnedTabs),
                                 ![p].unorderedAtStart = ~Ordered(order[w], tabs),
                                 ![p].snapshot = order[w],
                                 ![p].second = w \in hist.organized,
                                 ![p].pc = AfterGroups(og, ut)]
  /\ UNCHANGED <<order, tabs, tabGroups, storage, timers, events, organizingWindows,
                 organizeTimers, autoCloseTimers, budget, hist, otherTasks>>

\* chrome.tabGroups.move(group.id, {index: currentIndex}) answers,
\* part_001:345; an error leaves the loop for the catch of part_001:369.
PassMoveGroup(p) ==
  /\ passes[p].pc = "moveGroup"
  /\ LET r == HostMoveGroup(order, tabs, tabGroups, Head(passes[p].orderedGroups),
                              passes[p].currentIndex)
       IN IF r.ok
          THEN /\ order' = r.order
               /\ events' = events \cup r.events
               /\ passes' = [passes EXCEPT ![p].pc = "queryGroup",
                                           ![p].moved = @ \/ r.events # {}]
          ELSE /\ passes' = [passes EXCEPT ![p].pc = "finally", ![p].aborted = TRUE]
               /\ UNCHANGED <<order, events>>
  /\ UNCHANGED <<tabs, tabGroups, storage, timers, organizingWindows, organizeTimers,
                 autoCloseTimers, budget, hist, otherTasks>>

\* chrome.tabs.query({groupId}) answers, part_001:350-351
PassQueryGroup(p) ==
  /\ passes[p].pc = "queryGroup"
  /\ LET g == Head(passes[p].orderedGroups)
         og == Tail(passes[p].orderedGroups)
     IN passes' = [passes EXCEPT
                     ![p].currentIndex = AdvanceIndex(@, Len(TabsOfGroup(order, tabs, g))),
                     ![p].orderedGroups = og,
                     ![p].pc = AfterGroups(og, passes[p].ungroupedTabs)]
  /\ UNCHANGED <<order, tabs, tabGroups, storage, timers, events, organizingWindows,
                 organizeTimers, autoCloseTimers, budget, hist, otherTasks>>

\* chrome.tabs.move(t.id, {index: currentIndex}) answers, part_001:361-366:
\* an error is swallowed and the index is not advanced
PassMoveTab(p) ==
  /\ passes[p].pc = "moveTab"
  /\ LET r == HostMoveTab(order, tabs, tabGroups, Head(passes[p].ungroupedTabs),
                            passes[p].currentIndex)
           ut == Tail(passes[p].ungroupedTabs)
       IN IF r.ok
          THEN /\ order' = r.order
               /\ tabs' = r.tabs
               /\ tabGroups' = r.tabGroups
               /\ events' = events \cup r.events
               /\ passes' = [passes EXCEPT ![p].currentIndex = @ + 1,
                                           ![p].ungroupedTabs = ut,
                                           ![p].moved = @ \/ r.events # {},
                                           ![p].pc = AfterGroups(<<>>, ut)]
          ELSE /\ passes' = [passes EXCEPT ![p].ungroupedTabs = ut,
                                           ![p].pc = AfterGroups(<<>>, ut)]
               /\ UNCHANGED <<order, tabs, tabGroups, events>>
  /\ UNCHANGED <<storage, timers, organizingWindows, organizeTimers,
                 autoCloseTimers, budget, hist, otherTasks>>

\* mutant of Finally: the flag is cleared at the end of the try block only
Finally_OnlyOnSuccess(ow, w, aborted) == IF aborted THEN ow ELSE ow \ {w}

\* part_001:371-373: the finally block, run after the try block and after
\* the catch block alike
Finally(ow, w, aborted) == ow \ {w}

\* the pass runs on after its last host call, part_001:371-373
PassFinally(p) ==
  /\ passes[p].pc = "finally"
  /\ organizingWindows' = Finally(organizingWindows, passes[p].windowId, passes[p].aborted)
  /\ passes' = [passes EXCEPT ![p] = IdlePass]
  /\ hist' = [hist EXCEPT !.dropped = FALSE,
                          !.organized = IF passes[p].aborted \/ passes[p].interleaved
                                        THEN @ \ {passes[p].windowId}
                                        ELSE @ \cup {passes[p].windowId}]
  /\ UNCHANGED <<order, tabs, tabGroups, storage, timers, events, organizeTimers,
                 autoCloseTimers, budget, otherTasks>>

\* chrome.tabs.onMoved and chrome.tabGroups.onMoved listeners,
\* part_001:546-548 and 584-591
OnMoved(e) ==
  /\ e \in events /\ e.type \in {"tabs.onMoved", "tabGroups.onMoved"}
  /\ CanSetTimeout(timers, organizeTimers, autoCloseTimers)
  /\ events' = events \ {e}
  /\ LET r == scheduleOrganizeWindow(timers, organizeTimers, autoCloseTimers,
                                     organizingWindows, e.windowId)
     IN timers' = r.timers /\ organizeTimers' = r.organizeTimers
  /\ UNCHANGED <<order, tabs, tabGroups, storage, organizingWindows,
                 autoCloseTimers, passes, budget, hist, otherTasks>>

\* The user drags a tab to another index of its window (not an action of the
\* worker): the host moves it as chrome.tabs.move does and dispatches
\* tabs.onMoved.
UserMovesTab(t, index) ==
  /\ budget > 0
  /\ t \in OpenTabs(order)
  /\ LET r == HostMoveTab(order, tabs, tabGroups, t, index)
     IN /\ r.events # {}
        /\ order' = r.order
        /\ tabs' = r.tabs
        /\ tabGroups' = r.tabGroups
        /\ events' = events \cup r.events
  /\ budget' = budget - 1
  /\ passes' = Disturb(passes, WindowOf(order, t))
  /\ hist' = [hist EXCEPT !.organized = @ \ {WindowOf(order, t)}]
  /\ UNCHANGED <<storage, timers, organizingWindows, organizeTimers,
                 autoCloseTimers, otherTasks>>

\* ------------------------------------------------------------ dedupeGroups
\* A dedupeGroups invocation, part_001:276-299.  pc is the await it is
\* suspended on (queryGroups 279, queryTabs 287, group 289, update 295) or
\* "return" when its promise has settled.  failed: the catch of 296 ran.
\* caller is the processTab invocation that awaits the call, 0 for none.
\* sameTitle, members, alone and stale are history: the same-title groups and
\* their tabs at the snapshot of 279, no other invocation or retitling since
\* the call began, a group was retitled since the snapshot.
IdleDedupe ==
  [pc |-> "idle", windowId |-> NoWindow, title |-> "", color |-> Absent,
   primary |-> TAB_GROUP_ID_NONE, rest |-> <<>>, tabIds |-> <<>>, failed |-> FALSE,
   caller |-> 0, sameTitle |-> {}, members |-> {}, alone |-> TRUE, stale |-> FALSE]

ActiveDedupes(dd) == {d \in DedupeIds : dd[d].pc \notin {"idle", "return"}}

Max(S) == CHOOSE x \in S : \A y \in S : x >= y

\* mutant of SortById: the highest id first
RECURSIVE SortById_Descending(_)
SortById_Descending(S) ==
  IF S = {} THEN <<>> ELSE <<Max(S)>> \o SortById_Descending(S \ {Max(S)})

\* part_001:283: sameTitle.sort((a, b) => a.id - b.id)
RECURSIVE SortById(_)
SortById(S) == IF S = {} THEN <<>> ELSE <<Min(S)>> \o SortById(S \ {Min(S)})

\* mutant of SameTitle: no group is found by its title
SameTitle_None(ord, tb, tg, w, title) == {}

\* part_001:279-280 and 403: the groups of window w titled title
SameTitle(ord, tb, tg, w, title) ==
  {g \in GroupsOfWindow(ord, tb, w) : tg[g].title = title}

\* the tabs of the groups of window w titled title
TitledTabs(ord, tb, tg, w, title) ==
  {t \in Range(ord[w]) : tb[t].groupId \in SameTitle(ord, tb, tg, w, title)}

\* part_001:276-278: the call dedupeGroups(w, title, color) as invocation d,
\* up to its first await; it returns at once without a window or a title
dedupeGroups(dd, d, w, title, color) ==
  [e \in DedupeIds |->
     IF e = d
     THEN [IdleDedupe EXCEPT !.pc = IF w = NoWindow \/ title = "" THEN "return"
                                    ELSE "queryGroups",
                             !.windowId = w, !.title = title, !.color = color,
                             !.alone = ActiveDedupes(dd) = {}]
     ELSE IF e \in ActiveDedupes(dd) THEN [dd[e] EXCEPT !.alone = FALSE] ELSE dd[e]]

\* part_001:286 and 292: on to the next group of rest, or to the update
NextRest(r) ==
  IF Len(r.rest) > 1
  THEN [r EXCEPT !.rest = Tail(@), !.tabIds = <<>>, !.pc = "queryTabs"]
  ELSE [r EXCEPT !.rest = <<>>, !.tabIds = <<>>, !.pc = "update"]

\* part_001:296: the catch swallows the error and the call returns
Caught(r) == [r EXCEPT !.failed = TRUE, !.pc = "return"]

\* mutant of MergeInto: the tabs are taken out of their group instead
MergeInto_Ungroup(ord, tb, tg, ids, primary) ==
  LET tb2 == [t \in TabIds |-> IF t \in Range(ids)
                               THEN [tb[t] EXCEPT !.groupId = TAB_GROUP_ID_NONE]
                               ELSE tb[t]]
  IN [ok |-> TRUE, order |-> ord, tabs |-> tb2, tabGroups |-> Collect(ord, tb2, tg),
      events |-> {}]

\* part_001:289: chrome.tabs.group({tabIds, groupId: primary.id})
MergeInto(ord, tb, tg, ids, primary) == HostGroupTabs(ord, tb, tg, ids, primary)

\* part_001:293-294: the update object {title} with the color if there is one
UpdateColor(color) == IF color = "" THEN Absent ELSE color

\* mutant of AtMostOne: only a title that no group has ends the call
AtMostOne_None(same) == Cardinality(same) < 1

\* part_001:281: sameTitle.length <= 1
AtMostOne(same) == Cardinality(same) <= 1

\* part_001:279-285: the groups of the window arrive; with at most one of the
\* title the call returns, else the lowest id is primary
DedupeQueryGroups(d) ==
  /\ dedupes[d].pc = "queryGroups"
  /\ LET r == dedupes[d]
         same == SameTitle(order, tabs, tabGroups, r.windowId, r.title)
         sorted == SortById(same)
     IN dedupes' = [dedupes EXCEPT ![d] =
          IF AtMostOne(same)
          THEN [r EXCEPT !.pc = "return", !.sameTitle = same]
          ELSE [r EXCEPT !.pc = IF Tail(sorted) = <<>> THEN "update" ELSE "queryTabs",
                         !.primary = sorted[1],
                         !.rest = Tail(sorted), !.sameTitle = same,
                         !.members = TitledTabs(order, tabs, tabGroups,
                                                r.windowId, r.title)]]
  /\ UNCHANGED <<order, tabs, tabGroups, storage, timers, events, organizingWindows,
                 organizeTimers, autoCloseTimers, passes, assigns, closers,
                 budget, hist>>

\* part_001:287-288: the tabs of the next group of rest arrive
DedupeQueryTabs(d) ==
  /\ dedupes[d].pc = "queryTabs"
  /\ LET r == dedupes[d]
         ts == TabsOfGroup(order, tabs, r.rest[1])
     IN dedupes' = [dedupes EXCEPT ![d] =
          IF ts = <<>> THEN NextRest(r) ELSE [r EXCEPT !.tabIds = ts, !.pc = "group"]]
  /\ UNCHANGED <<order, tabs, tabGroups, storage, timers, events, organizingWindows,
                 organizeTimers, autoCloseTimers, passes, assigns, closers,
                 budget, hist>>

\* part_001:289: the tabs are moved into primary; the host may refuse the
\* call: a tab or the group is gone, or tabs cannot be edited right now
\* because the user is dragging one (busy, an external action)
DedupeGroup(d) ==
  /\ dedupes[d].pc = "group"
  /\ \E busy \in (IF budget > 0 THEN BOOLEAN ELSE {FALSE}) :
       /\ budget' = (IF busy THEN budget - 1 ELSE budget)
       /\ LET r == dedupes[d]
              res == MergeInto(order, tabs, tabGroups, r.tabIds, r.primary)
          IN IF busy \/ ~res.ok
             THEN /\ dedupes' = [dedupes EXCEPT ![d] = Caught(r)]
                  /\ UNCHANGED <<order, tabs, tabGroups, events>>
             ELSE /\ dedupes' = [dedupes EXCEPT ![d] = NextRest(r)]
                  /\ order' = res.order /\ tabs' = res.tabs /\ tabGroups' = res.tabGroups
                  /\ events' = events \cup res.events
  /\ UNCHANGED <<storage, timers, organizingWindows, organizeTimers,
                 autoCloseTimers, passes, assigns, closers, hist>>

\* part_001:293-295: primary gets the title and the color
DedupeUpdate(d) ==
  /\ dedupes[d].pc = "update"
  /\ \E busy \in (IF budget > 0 THEN BOOLEAN ELSE {FALSE}) :
       /\ budget' = (IF busy THEN budget - 1 ELSE budget)
       /\ LET r == dedupes[d]
              res == HostUpdateGroup(order, tabs, tabGroups, r.primary, r.title,
                                     UpdateColor(r.color))
          IN IF busy \/ ~res.ok
             THEN /\ dedupes' = [dedupes EXCEPT ![d] = Caught(r)]
                  /\ UNCHANGED <<tabGroups, events>>
             ELSE /\ dedupes' = [dedupes EXCEPT ![d].pc = "return"]
                  /\ tabGroups' = res.tabGroups
                  /\ events' = events \cup res.events
  /\ UNCHANGED <<order, tabs, storage, timers, organizingWindows, organizeTimers,
                 autoCloseTimers, passes, assigns, closers, hist>>

\* the promise of a call nobody awaits (part_001:578) is dropped
DedupeReturn(d) ==
  /\ dedupes[d].pc = "return" /\ dedupes[d].caller = 0
  /\ dedupes' = [dedupes EXCEPT ![d] = IdleDedupe]
  /\ UNCHANGED <<order, tabs, tabGroups, storage, timers, events, organizingWindows,
                 organizeTimers, autoCloseTimers, passes, assigns, closers,
                 budget, hist>>

\* chrome.tabGroups.onUpdated listener, part_001:574-582: a titled group
\* starts a dedupe of its title, and the window is scheduled
OnGroupUpdated(e, d) ==
  /\ e \in events /\ e.type = "tabGroups.onUpdated"
  /\ dedupes[d].pc = "idle" /\ \A c \in DedupeIds : c < d => dedupes[c].pc # "idle"
  /\ CanSetTimeout(timers, organizeTimers, autoCloseTimers)
  /\ events' = events \ {e}
  /\ dedupes' = IF e.group.title # ""
                THEN dedupeGroups(dedupes, d, e.windowId, e.group.title, e.group.color)
                ELSE dedupes
  /\ LET r == scheduleOrganizeWindow(timers, organizeTimers, autoCloseTimers,
                                     organizingWindows, e.windowId)
     IN timers' = r.timers /\ organizeTimers' = r.organizeTimers
  /\ UNCHANGED <<order, tabs, tabGroups, storage, organizingWindows,
                 autoCloseTimers, passes, assigns, closers, budget, hist>>

\* The user gives group g the title title (not an action of the worker): the
\* host dispatches tabGroups.onUpdated.
UserRenamesGroup(g, title) ==
  /\ budget > 0 /\ GroupExists(order, tabs, g) /\ tabGroups[g].title # title
  /\ budget' = budget - 1
  /\ LET res == HostUpdateGroup(order, tabs, tabGroups, g, title, Absent)
     IN tabGroups' = res.tabGroups /\ events' = events \cup res.events
  /\ dedupes' = [d \in DedupeIds |->
                   IF dedupes[d].pc # "idle"
                   THEN [dedupes[d] EXCEPT !.alone = FALSE,
                                           !.stale = @ \/ dedupes[d].pc # "queryGroups"]
                   ELSE dedupes[d]]
  /\ UNCHANGED <<order, tabs, storage, timers, organizingWindows, organizeTimers,
                 autoCloseTimers, passes, assigns, closers, hist>>

\* ------------------------------------------------- maybeScheduleAutoClose
\* A maybeScheduleAutoClose invocation suspended on its rule read (pc
\* "rules", part_001:236) or a timer callback suspended on tabs.get ("get",
\* 248), on its rule read ("latest", 253) or on tabs.remove ("remove", 257).
\* tab is the tab the invocation was handed, fresh the tab the callback read.
\* rules and current are history: the rules the callback read and the tab
\* as it was when the callback asked for its removal, and the time in
\* seconds since the invocation began (waited).
IdleCloser ==
  [pc |-> "idle", tab |-> NoTabInfo, fresh |-> NoTabInfo, rules |-> <<>>,
   current |-> NoTabInfo, waited |-> 0]

FreeCloser(cl) == Min({c \in CloserIds : cl[c].pc = "idle"})

\* part_001:230-235: the invocation reaches its rule read only for an
\* unpinned tab with an http(s) url
ReachesRuleRead(tab) ==
  tab.id # 0 /\ ~tab.pinned /\ getHostFromUrl(tab.url) \notin {Null, <<>>}

CanScheduleAutoClose(cl, tab) ==
  ReachesRuleRead(tab) => \E c \in CloserIds : cl[c].pc = "idle"

\* part_001:228-236: maybeScheduleAutoClose(tab) up to its first await
maybeScheduleAutoClose(cl, tab) ==
  IF ReachesRuleRead(tab)
  THEN [cl EXCEPT ![FreeCloser(cl)] = [IdleCloser EXCEPT !.pc = "rules", !.tab = tab]]
  ELSE cl

\* mutant of ClearExisting: the timer of the tab is left pending
ClearExisting_Skipped(tm, at, t) == tm

\* part_001:242-244: a timer the map holds for the tab is cleared
ClearExisting(tm, at, t) == IF at[t] # NoTimer THEN clearTimeout(tm, at[t]) ELSE tm

\* part_001:237-263: the rules arrive; without a matching rule the call
\* returns, else the timer of the tab is replaced
CloserRules(c) ==
  /\ closers[c].pc = "rules"
  /\ LET tab == closers[c].tab
         rules == getAutoCloseRules(storage.autoClosePatterns)
         match == FindRule(rules, getHostFromUrl(tab.url), getPathFromUrl(tab.url))
         tm1 == ClearExisting(timers, autoCloseTimers, tab.id)
         at1 == [autoCloseTimers EXCEPT ![tab.id] = NoTimer]
     IN IF match = NoRule
        THEN UNCHANGED <<timers, autoCloseTimers>>
        ELSE /\ CanSetTimeout(tm1, organizeTimers, at1)
             /\ LET id == setTimeout(tm1, organizeTimers, at1)
                IN /\ timers' = tm1 \cup
                        {[Timer(id, "autoClose", tab.id, AutoCloseDelay(match),
                                FALSE, autoCloseTimers[tab.id] # NoTimer)
                            EXCEPT !.sinceCall = closers[c].waited]}
                   /\ autoCloseTimers' = [autoCloseTimers EXCEPT ![tab.id] = id]
  /\ closers' = [closers EXCEPT ![c] = IdleCloser]
  /\ UNCHANGED <<order, tabs, tabGroups, storage, events, organizingWindows,
                 organizeTimers, passes, dedupes, assigns, budget, hist>>

\* part_001:245-248: an auto-close timer expires; the callback drops the map
\* entry of its tab and asks for the tab
AutoCloseTimerFires(x, c) ==
  /\ x \in timers /\ x.kind = "autoClose"
  /\ closers[c].pc = "idle" /\ c = FreeCloser(closers)
  /\ timers' = timers \ {x}
  /\ autoCloseTimers' = [autoCloseTimers EXCEPT ![x.key] = NoTimer]
  /\ closers' = [closers EXCEPT ![c] =
                   [IdleCloser EXCEPT !.pc = "get", !.tab.id = x.key]]
  /\ UNCHANGED <<order, tabs, tabGroups, storage, events, organizingWindows,
                 organizeTimers, passes, dedupes, assigns, budget, hist>>

\* part_001:248-253: the tab arrives; a tab that is gone or pinned ends the
\* callback
CloserGet(c) ==
  /\ closers[c].pc = "get"
  /\ LET t == closers[c].tab.id
     IN closers' = [closers EXCEPT ![c] =
          IF t \notin OpenTabs(order) \/ tabs[t].pinned THEN IdleCloser
          ELSE [@ EXCEPT !.pc = "latest", !.fresh = TabInfo(order, tabs, t)]]
  /\ UNCHANGED <<order, tabs, tabGroups, storage, timers, events, organizingWindows,
                 organizeTimers, autoCloseTimers, passes, dedupes, assigns, budget, hist>>

\* mutant of StillMatch: the tab is removed whatever its url and the rules
StillMatch_Always(fresh, latest) == TRUE

\* part_001:250-255: stillMatch, the url of the tab read matches a rule of
\* the rules read
StillMatch(fresh, latest) ==
  /\ getHostFromUrl(fresh.url) \notin {Null, <<>>}
  /\ FindRule(latest, getHostFromUrl(fresh.url), getPathFromUrl(fresh.url)) # NoRule

\* part_001:253-257: the rules arrive again; when the url of the tab read
\* still matches one, the removal of the tab is requested
CloserLatest(c) ==
  /\ closers[c].pc = "latest"
  /\ LET r == closers[c]
         latest == getAutoCloseRules(storage.autoClosePatterns)
     IN /\ closers' = [closers EXCEPT ![c] =
          IF StillMatch(r.fresh, latest)
          THEN [r EXCEPT !.pc = "remove", !.rules = latest,
                         !.current = IF r.tab.id \in OpenTabs(order)
                                     THEN TabInfo(order, tabs, r.tab.id) ELSE NoTabInfo]
          ELSE IdleCloser]
        /\ hist' = [hist EXCEPT !.spared = @ \/ ~StillMatch(r.fresh, latest)]
  /\ UNCHANGED <<order, tabs, tabGroups, storage, timers, events, organizingWindows,
                 organizeTimers, autoCloseTimers, passes, dedupes, assigns, budget>>

\* part_001:257-261: the tab is removed; an error is swallowed
CloserRemove(c) ==
  /\ closers[c].pc = "remove"
  /\ LET res == HostRemoveTab(order, tabs, tabGroups, closers[c].tab.id)
     IN /\ order' = res.order /\ tabs' = res.tabs /\ tabGroups' = res.tabGroups
        /\ events' = events \cup res.events
  /\ closers' = [closers EXCEPT ![c] = IdleCloser]
  /\ UNCHANGED <<storage, timers, organizingWindows, organizeTimers, autoCloseTimers,
                 passes, dedupes, assigns, budget, hist>>

\* chrome.tabs.onRemoved listener, part_001:556-565: the timer of the tab is
\* cleared and forgotten, the window scheduled
OnTabRemoved(e) ==
  /\ e \in events /\ e.type = "tabs.onRemoved"
  /\ events' = events \ {e}
  /\ LET tm1 == IF autoCloseTimers[e.tabId] # NoTimer
                THEN clearTimeout(timers, autoCloseTimers[e.tabId]) ELSE timers
         at1 == [autoCloseTimers EXCEPT ![e.tabId] = NoTimer]
         r == scheduleOrganizeWindow(tm1, organizeTimers, at1, organizingWindows, e.windowId)
     IN /\ IF e.change # "isWindowClosing"
           THEN /\ CanSetTimeout(CancelPending(tm1, organizeTimers, e.windowId),
                                 [organizeTimers EXCEPT ![e.windowId] = NoTimer], at1)
                /\ timers' = r.timers /\ organizeTimers' = r.organizeTimers
           ELSE timers' = tm1 /\ UNCHANGED organizeTimers
        /\ autoCloseTimers' = at1
  /\ UNCHANGED <<order, tabs, tabGroups, storage, organizingWindows, passes,
                 dedupes, assigns, closers, budget, hist>>

\* ------------------------------------------------------------- processTab
\* A processTabId / processTab / ensureTabInGroup invocation.  pc is the
\* await it is suspended on: tabsGet (part_001:432), getGroups (453),
\* queryGroups (402), groupExisting (407), updateColor (411), groupNew (415),
\* updateNew (416), dedupe (420), getGroup (463), ungroup (473).  tab is the
\* tab it was handed, match the rule found, managed the titles of the rules,
\* existing the group found by title, groupId the group made, dedupe the
\* dedupeGroups call awaited.  origin is the caller of processTab: the
\* tab-created listener ("created", 516, nobody awaits or catches),
\* processTabId ("id", 431-436, which catches) or sweepAllTabs ("sweep",
\* 486-496, which awaits); for a sweep, pc is also sweepQuery (487) and next
\* (the loop of 488 goes on), queue the tabs of its snapshot still to do and
\* windows the windows of the snapshot.  pc "rejected": a host call of
\* ensureTabInGroup failed and the promise of processTab is rejected.
\* late is history: another actor changed the window after the membership
\* check of 406.
IdleAssign ==
  [pc |-> "idle", tab |-> NoTabInfo, match |-> NoMatch, managed |-> {},
   existing |-> NoGroupInfo, groupId |-> TAB_GROUP_ID_NONE, dedupe |-> 0,
   origin |-> "", queue |-> <<>>, windows |-> {}, late |-> FALSE]

\* processTab has returned: a sweep goes on with its loop, any other caller
\* is done
Finish(r) ==
  IF r.origin = "sweep"
  THEN [IdleAssign EXCEPT !.pc = "next", !.origin = "sweep", !.queue = r.queue,
                          !.windows = r.windows]
  ELSE IdleAssign

FreeAssign(as) == Min({a \in AssignIds : as[a].pc = "idle"})

\* part_001:443-445: processTab reaches its first await only for an unpinned
\* tab
ReachesGetGroups(tab) == tab.id # 0 /\ ~tab.pinned

CanProcessTab(as, tab) == ReachesGetGroups(tab) => \E a \in AssignIds : as[a].pc = "idle"

\* part_001:443-453: processTab(tab) up to its first await
processTab(as, tab) ==
  IF ReachesGetGroups(tab)
  THEN [as EXCEPT ![FreeAssign(as)] =
          [IdleAssign EXCEPT !.pc = "getGroups", !.tab = tab, !.origin = "created"]]
  ELSE as

\* part_001:430-432: processTabId(tabId) up to its first await
processTabId(as, tabId) ==
  [as EXCEPT ![FreeAssign(as)] =
     [IdleAssign EXCEPT !.pc = "tabsGet", !.tab.id = tabId, !.origin = "id"]]

\* part_001:486-487: sweepAllTabs() up to its first await
sweepAllTabs(as) ==
  [as EXCEPT ![FreeAssign(as)] = [IdleAssign EXCEPT !.pc = "sweepQuery", !.origin = "sweep"]]

\* the group ids the host has not handed out, or that nothing refers to any
\* more: a new group gets one of these
FreshGroupIds ==
  GroupIds \ ( {tabs[t].groupId : t \in TabIds}
               \cup UNION {{dedupes[d].primary} \cup Range(dedupes[d].rest)
                           \cup dedupes[d].sameTitle : d \in DedupeIds}
               \cup UNION {{assigns[a].tab.groupId, assigns[a].existing.id,
                            assigns[a].groupId}
                           \cup {assigns[a].queue[i].groupId : i \in 1..Len(assigns[a].queue)}
                             : a \in AssignIds}
               \cup UNION {Range(passes[p].orderedGroups) : p \in PassIds}
               \cup {e.group.id : e \in events} \cup {e.tab.groupId : e \in events}
               \cup {closers[c].tab.groupId : c \in CloserIds} )

\* part_001:420: ensureTabInGroup calls dedupeGroups and awaits it
AwaitDedupe(a, r) ==
  \E d \in DedupeIds :
     /\ dedupes[d].pc = "idle" /\ \A c \in DedupeIds : c < d => dedupes[c].pc # "idle"
     /\ dedupes' = [dedupeGroups(dedupes, d, r.tab.windowId, r.match.title, r.match.color)
                      EXCEPT ![d].caller = a]
     /\ assigns' = [assigns EXCEPT ![a] = [r EXCEPT !.pc = "dedupe", !.dedupe = d]]

\* a host call of ensureTabInGroup fails: the rejection leaves
\* ensureTabInGroup and processTab (no catch, part_001:396-424 and 458)
Rejected(a) == assigns' = [assigns EXCEPT ![a].pc = "rejected"] /\ UNCHANGED dedupes

\* part_001:432-451: the tab arrives (a tab that is gone ends the call, 434)
\* and processTab starts on it
AssignTabsGet(a) ==
  /\ assigns[a].pc = "tabsGet"
  /\ LET t == assigns[a].tab.id
         tab == TabInfo(order, tabs, t)
     IN assigns' = [assigns EXCEPT ![a] =
          IF t \notin OpenTabs(order) \/ ~ReachesGetGroups(tab) THEN IdleAssign
          ELSE [IdleAssign EXCEPT !.pc = "getGroups", !.tab = tab, !.origin = "id"]]
  /\ UNCHANGED <<order, tabs, tabGroups, storage, timers, events, organizingWindows,
                 organizeTimers, autoCloseTimers, passes, dedupes, closers, budget, hist>>

\* part_001:453-463: the rules arrive (stored in the current schema); a
\* matching tab goes on to ensureTabInGroup (396-402), a grouped tab that
\* matches nothing asks for its group
AssignGetGroups(a) ==
  /\ assigns[a].pc = "getGroups"
  /\ LET r == assigns[a]
         groups == getGroups(storage.groupingRules)
         host == getHostFromUrl(r.tab.url)
         match == findMatchingGroup(host, getPathFromUrl(r.tab.url), groups)
     IN IF getGroupsThrows(storage.groupingRules)
        THEN /\ assigns' = [assigns EXCEPT ![a].pc = "rejected"]
             /\ hist' = [hist EXCEPT !.read = storage.groupingRules, !.groups = <<>>]
             /\ UNCHANGED <<storage, events>>
        ELSE /\ assigns' = [assigns EXCEPT ![a] =
                  IF match # NoMatch
                  THEN IF r.tab.windowId = NoWindow THEN Finish(r)
                       ELSE [r EXCEPT !.pc = "queryGroups", !.match = match]
                  ELSE IF r.tab.groupId # TAB_GROUP_ID_NONE
                       THEN [r EXCEPT !.pc = "getGroup",
                                      !.managed = {groups[i].title : i \in 1..Len(groups)}]
                       ELSE Finish(r)]
             /\ storage' = [storage EXCEPT !.groupingRules = WrittenBack(@)]
             /\ events' = IF storage' = storage THEN events
                          ELSE events \cup {[Event("storage.onChanged", NoWindow, 0,
                                                   NoGroupInfo)
                                              EXCEPT !.change = "groupingRules"]}
             /\ hist' = [hist EXCEPT !.read = storage.groupingRules, !.groups = groups]
  /\ UNCHANGED <<order, tabs, tabGroups, timers, organizingWindows,
                 organizeTimers, autoCloseTimers, passes, dedupes, closers, budget>>

\* part_001:402-415: the groups of the window arrive; the first one with the
\* title (the host answers in no documented order) is the existing one
AssignQueryGroups(a) ==
  /\ assigns[a].pc = "queryGroups"
  /\ LET r == assigns[a]
         same == SameTitle(order, tabs, tabGroups, r.tab.windowId, r.match.title)
     IN IF same = {}
        THEN assigns' = [assigns EXCEPT ![a].pc = "groupNew"] /\ UNCHANGED dedupes
        ELSE \E g \in same :
               LET r2 == [r EXCEPT !.existing = GroupInfo(tabGroups, g)]
               IN IF r.tab.groupId # g
                  THEN assigns' = [assigns EXCEPT ![a] = [r2 EXCEPT !.pc = "groupExisting"]]
                       /\ UNCHANGED dedupes
                  ELSE IF tabGroups[g].color # r.match.color
                  THEN assigns' = [assigns EXCEPT ![a] = [r2 EXCEPT !.pc = "updateColor"]]
                       /\ UNCHANGED dedupes
                  ELSE AwaitDedupe(a, r2)
  /\ UNCHANGED <<order, tabs, tabGroups, storage, timers, events, organizingWindows,
                 organizeTimers, autoCloseTimers, passes, closers, budget, hist>>

\* part_001:407-411: the tab is put into the existing group
AssignGroupExisting(a) ==
  /\ assigns[a].pc = "groupExisting"
  /\ LET r == assigns[a]
         res == HostGroupTabs(order, tabs, tabGroups, <<r.tab.id>>, r.existing.id)
     IN /\ order' = res.order /\ tabs' = res.tabs /\ tabGroups' = res.tabGroups
        /\ events' = events \cup res.events
        /\ IF ~res.ok THEN Rejected(a)
           ELSE IF r.existing.color # r.match.color
           THEN assigns' = [assigns EXCEPT ![a].pc = "updateColor"] /\ UNCHANGED dedupes
           ELSE AwaitDedupe(a, r)
  /\ UNCHANGED <<storage, timers, organizingWindows, organizeTimers, autoCloseTimers,
                 passes, closers, budget, hist>>

\* part_001:411: the existing group gets the color of the rule
AssignUpdateColor(a) ==
  /\ assigns[a].pc = "updateColor"
  /\ LET r == assigns[a]
         res == HostUpdateGroup(order, tabs, tabGroups, r.existing.id, Absent, r.match.color)
     IN /\ tabGroups' = res.tabGroups /\ events' = events \cup res.events
        /\ IF ~res.ok THEN Rejected(a) ELSE AwaitDedupe(a, r)
  /\ UNCHANGED <<order, tabs, storage, timers, organizingWindows, organizeTimers,
                 autoCloseTimers, passes, closers, budget, hist>>

\* part_001:415: the tab is put into a new group, whose id the host chooses
AssignGroupNew(a) ==
  /\ assigns[a].pc = "groupNew"
  /\ \E g \in FreshGroupIds :
       LET res == HostGroupNew(order, tabs, tabGroups, assigns[a].tab.id, g)
       IN /\ order' = res.order /\ tabs' = res.tabs /\ tabGroups' = res.tabGroups
          /\ events' = events \cup res.events
          /\ IF ~res.ok THEN Rejected(a)
             ELSE /\ assigns' = [assigns EXCEPT ![a].pc = "updateNew", ![a].groupId = g]
                  /\ UNCHANGED dedupes
          /\ hist' = [hist EXCEPT !.newGroups = IF res.ok THEN @ + 1 ELSE @]
  /\ UNCHANGED <<storage, timers, organizingWindows, organizeTimers, autoCloseTimers,
                 passes, closers, budget>>

\* part_001:416-420: the new group gets title and color of the rule
AssignUpdateNew(a) ==
  /\ assigns[a].pc = "updateNew"
  /\ LET r == assigns[a]
         res == HostUpdateGroup(order, tabs, tabGroups, r.groupId, r.match.title,
                                r.match.color)
     IN /\ tabGroups' = res.tabGroups /\ events' = events \cup res.events
        /\ IF ~res.ok THEN Rejected(a) ELSE AwaitDedupe(a, r)
  /\ UNCHANGED <<order, tabs, storage, timers, organizingWindows, organizeTimers,
                 autoCloseTimers, passes, closers, budget, hist>>

\* part_001:420-423: the awaited dedupeGroups call has returned; the window is
\* scheduled and the invocation ends
AssignAfterDedupe(a) ==
  /\ assigns[a].pc = "dedupe" /\ dedupes[assigns[a].dedupe].pc = "return"
  /\ CanSetTimeout(timers, organizeTimers, autoCloseTimers)
  /\ dedupes' = [dedupes EXCEPT ![assigns[a].dedupe] = IdleDedupe]
  /\ assigns' = [assigns EXCEPT ![a] = Finish(assigns[a])]
  /\ LET r == scheduleOrganizeWindow(timers, organizeTimers, autoCloseTimers,
                                     organizingWindows, assigns[a].tab.windowId)
     IN timers' = r.timers /\ organizeTimers' = r.organizeTimers
  /\ UNCHANGED <<order, tabs, tabGroups, storage, events, organizingWindows,
                 autoCloseTimers, passes, closers, budget, hist>>

\* mutants of IsManaged: every group, or no group, counts as made by a rule
IsManaged_Always(title, managed) == TRUE
IsManaged_Never(title, managed) == FALSE

\* part_001:471-472, managedTitles.has(currentGroup.title)
IsManaged(title, managed) == title \in managed

\* part_001:463-473: the group of the tab arrives (a group that is gone ends
\* the call, 475); the tab leaves it when its title is the title of a rule
AssignGetGroup(a) ==
  /\ assigns[a].pc = "getGroup"
  /\ LET r == assigns[a]
     IN assigns' = [assigns EXCEPT ![a] =
          IF /\ GroupExists(order, tabs, r.tab.groupId)
             /\ IsManaged(tabGroups[r.tab.groupId].title, r.managed)
          THEN [r EXCEPT !.pc = "ungroup"]
          ELSE Finish(r)]
  /\ UNCHANGED <<order, tabs, tabGroups, storage, timers, events, organizingWindows,
                 organizeTimers, autoCloseTimers, passes, dedupes, closers, budget, hist>>

\* part_001:473-477: the tab is ungrouped and the window scheduled; an error
\* is swallowed
AssignUngroup(a) ==
  /\ assigns[a].pc = "ungroup"
  /\ LET r == assigns[a]
         res == HostUngroup(order, tabs, tabGroups, r.tab.id)
         sch == scheduleOrganizeWindow(timers, organizeTimers, autoCloseTimers,
                                       organizingWindows, r.tab.windowId)
     IN /\ order' = res.order /\ tabs' = res.tabs /\ tabGroups' = res.tabGroups
        /\ events' = events \cup res.events
        /\ IF res.ok
           THEN /\ CanSetTimeout(timers, organizeTimers, autoCloseTimers)
                /\ timers' = sch.timers /\ organizeTimers' = sch.organizeTimers
           ELSE UNCHANGED <<timers, organizeTimers>>
  /\ assigns' = [assigns EXCEPT ![a] = Finish(assigns[a])]
  /\ UNCHANGED <<storage, organizingWindows, autoCloseTimers, passes, dedupes,
                 closers, budget, hist>>

\* scheduleOrganizeWindow for every window of ws in turn, part_001:493-495
RECURSIVE ScheduleAll(_, _, _, _, _)
ScheduleAll(tm, ot, at, ow, ws) ==
  IF ws = {} THEN [timers |-> tm, organizeTimers |-> ot]
  ELSE LET r == scheduleOrganizeWindow(tm, ot, at, ow, Min(ws))
       IN ScheduleAll(r.timers, r.organizeTimers, at, ow, ws \ {Min(ws)})

\* chrome.tabs.query({}): all open tabs, window by window
RECURSIVE AllTabs(_, _, _)
AllTabs(ord, tb, w) ==
  IF w > MaxWindows THEN <<>>
  ELSE [i \in 1..Len(ord[w]) |-> TabInfo(ord, tb, ord[w][i])] \o AllTabs(ord, tb, w + 1)

\* part_001:487: the tabs of all windows arrive
AssignSweepQuery(a) ==
  /\ assigns[a].pc = "sweepQuery"
  /\ LET all == AllTabs(order, tabs, 1)
     IN assigns' = [assigns EXCEPT ![a].pc = "next", ![a].queue = all,
                                   ![a].windows = {all[i].windowId : i \in 1..Len(all)}]
  /\ UNCHANGED <<order, tabs, tabGroups, storage, timers, events, organizingWindows,
                 organizeTimers, autoCloseTimers, passes, dedupes, closers, budget, hist>>

\* part_001:488-495: the loop of the sweep goes on: processTab for the next
\* tab of the snapshot that is not pinned, or after the last tab every
\* window of the snapshot is scheduled
AssignSweepNext(a) ==
  /\ assigns[a].pc = "next"
  /\ LET r == assigns[a]
         todo == SelectSeq(r.queue, ReachesGetGroups)
     IN IF todo # <<>>
        THEN /\ assigns' = [assigns EXCEPT ![a] =
                  [r EXCEPT !.pc = "getGroups", !.tab = todo[1], !.queue = Tail(todo)]]
             /\ UNCHANGED <<timers, organizeTimers>>
        ELSE /\ Cardinality(TimerIds \ UsedHandles(timers, organizeTimers, autoCloseTimers))
                  >= Cardinality(r.windows)
             /\ LET sch == ScheduleAll(timers, organizeTimers, autoCloseTimers,
                                       organizingWindows, r.windows)
                IN timers' = sch.timers /\ organizeTimers' = sch.organizeTimers
             /\ assigns' = [assigns EXCEPT ![a] = IdleAssign]
  /\ UNCHANGED <<order, tabs, tabGroups, storage, events, organizingWindows,
                 autoCloseTimers, passes, dedupes, closers, budget, hist>>

\* The rejected promise of processTab reaches its caller: processTabId
\* catches it (part_001:434), the tab-created listener has let go of it (516:
\* an unhandled rejection), in sweepAllTabs it leaves the loop of 488-490 and
\* ends the sweep before 493.
AssignRejected(a) ==
  /\ assigns[a].pc = "rejected"
  /\ assigns' = [assigns EXCEPT ![a] = IdleAssign]
  /\ UNCHANGED <<order, tabs, tabGroups, storage, timers, events, organizingWindows,
                 organizeTimers, autoCloseTimers, passes, dedupes, closers, budget, hist>>

\* chrome.tabs.onCreated listener, part_001:515-521
OnTabCreated(e) ==
  /\ e \in events /\ e.type = "tabs.onCreated"
  /\ CanProcessTab(assigns, e.tab) /\ CanScheduleAutoClose(closers, e.tab)
  /\ CanSetTimeout(timers, organizeTimers, autoCloseTimers)
  /\ events' = events \ {e}
  /\ assigns' = processTab(assigns, e.tab)
  /\ LET r == scheduleOrganizeWindow(timers, organizeTimers, autoCloseTimers,
                                     organizingWindows, e.tab.windowId)
     IN timers' = r.timers /\ organizeTimers' = r.organizeTimers
  /\ closers' = maybeScheduleAutoClose(closers, e.tab)
  /\ UNCHANGED <<order, tabs, tabGroups, storage, organizingWindows, autoCloseTimers,
                 passes, dedupes, budget, hist>>

\* chrome.tabs.onUpdated listener, part_001:523-530: only a new url or a
\* finished load is acted on
OnTabUpdated(e) ==
  /\ e \in events /\ e.type = "tabs.onUpdated"
  /\ events' = events \ {e}
  /\ IF e.change \in {"url", "complete"}
     THEN /\ \E a \in AssignIds : assigns[a].pc = "idle"
          /\ CanScheduleAutoClose(closers, e.tab)
          /\ assigns' = processTabId(assigns, e.tabId)
          /\ closers' = maybeScheduleAutoClose(closers, e.tab)
     ELSE UNCHANGED <<assigns, closers>>
  /\ UNCHANGED <<order, tabs, tabGroups, storage, timers, organizingWindows,
                 organizeTimers, autoCloseTimers, passes, dedupes, budget, hist>>

\* chrome.runtime.onInstalled and onStartup listeners, part_001:499-505
OnInstalledOrStartup(e) ==
  /\ e \in events /\ e.type \in {"runtime.onInstalled", "runtime.onStartup"}
  /\ \E a \in AssignIds : assigns[a].pc = "idle"
  /\ events' = events \ {e}
  /\ assigns' = sweepAllTabs(assigns)
  /\ UNCHANGED <<order, tabs, tabGroups, storage, timers, organizingWindows,
                 organizeTimers, autoCloseTimers, passes, dedupes, closers, budget, hist>>

\* chrome.storage.onChanged listener, part_001:508-512: only a change of
\* groupingRules starts a sweep
OnStorageChanged(e) ==
  /\ e \in events /\ e.type = "storage.onChanged"
  /\ events' = events \ {e}
  /\ IF e.change = "groupingRules"
     THEN /\ \E a \in AssignIds : assigns[a].pc = "idle"
          /\ assigns' = sweepAllTabs(assigns)
     ELSE UNCHANGED assigns
  /\ UNCHANGED <<order, tabs, tabGroups, storage, timers, organizingWindows,
                 organizeTimers, autoCloseTimers, passes, dedupes, closers, budget, hist>>

\* chrome.tabGroups.onCreated listener, part_001:568-572
OnGroupCreated(e) ==
  /\ e \in events /\ e.type = "tabGroups.onCreated"
  /\ CanSetTimeout(timers, organizeTimers, autoCloseTimers)
  /\ events' = events \ {e}
  /\ LET r == scheduleOrganizeWindow(timers, organizeTimers, autoCloseTimers,
                                     organizingWindows, e.windowId)
     IN timers' = r.timers /\ organizeTimers' = r.organizeTimers
  /\ UNCHANGED <<order, tabs, tabGroups, storage, organizingWindows,
                 autoCloseTimers, passes, budget, hist, otherTasks>>

\* ------------------------------------------------- the window organizer
\* The windows as the host can show them when the worker has started and its
\* start-up sweep (part_001:486-496, no rules stored) has asked for a pass of
\* window 1: 1..MaxTabs tabs, up to MaxPinned of them pinned, the others in
\* any contiguous grouping.
Layouts ==
  {l \in [n : {MaxTabs}, k : 0..MaxPinned, g : [TabIds -> GroupIds \cup {TAB_GROUP_ID_NONE}]] :
     /\ l.k <= l.n
     /\ \A t \in TabIds : (t <= l.k \/ t > l.n) => l.g[t] = TAB_GROUP_ID_NONE
     /\ \A i, j \in 1..l.n : i < j /\ l.g[i] = l.g[j] /\ l.g[i] # TAB_GROUP_ID_NONE
           => \A m \in i..j : l.g[m] = l.g[i]}

LayoutOrder(l) == [w \in Windows |-> IF w = 1 THEN [i \in 1..l.n |-> i] ELSE <<>>]

LayoutTabs(l) ==
  [t \in TabIds |-> IF t <= l.n
                    THEN [pinned |-> t <= l.k, groupId |-> l.g[t], url |-> NoUrl]
                    ELSE ClosedTab]

\* dropped: a debounce callback found its window being organized;
\* newGroups: the groups ensureTabInGroup has made; spared: an auto-close
\* callback read its tab and the rules and did not ask for the removal;
\* organized: the windows whose last pass ran undisturbed to its end and
\* that nobody has changed since; closed: the windows the user has closed;
\* was: for each tab the group it was in at the start (where a claim asks);
\* read, groups: the array the last getGroups call of processTab read and
\* what it returned; result: what the test script got for its test case;
\* calls: the group events the earlier worker has heard
NoHist ==
  [dropped |-> FALSE, newGroups |-> 0, spared |-> FALSE, organized |-> {}, closed |-> {},
   was |-> <<>>, read |-> <<>>, groups |-> <<>>, result |-> "", calls |-> 0]

InitOrganizeWith(b) ==
  /\ \E l \in Layouts : order = LayoutOrder(l) /\ tabs = LayoutTabs(l)
  /\ tabGroups = [g \in GroupIds |-> NoGroup]
  /\ storage = [groupingRules |-> <<>>, autoClosePatterns |-> <<>>]
  /\ timers = {Timer(1, "organize", 1, DebounceMs, FALSE, FALSE)}
  /\ organizeTimers = [w \in Windows |-> IF w = 1 THEN 1 ELSE NoTimer]
  /\ autoCloseTimers = [t \in TabIds |-> NoTimer]
  /\ events = {}
  /\ organizingWindows = {}
  /\ passes = [p \in PassIds |-> IdlePass]
  /\ dedupes = [d \in DedupeIds |-> IdleDedupe]
  /\ assigns = [a \in AssignIds |-> IdleAssign]
  /\ closers = [c \in CloserIds |-> IdleCloser]
  /\ budget = b
  /\ hist = NoHist

\* the organizer and the events of its own moves, the user leaving the
\* window alone
InitOrganize == InitOrganizeWith(0)

NextOrganize ==
  \/ \E x \in timers : OrganizeTimerFires(x)
  \/ \E p \in PassIds : PassQuery(p)
  \/ \E p \in PassIds : PassMoveGroup(p)
  \/ \E p \in PassIds : PassQueryGroup(p)
  \/ \E p \in PassIds : PassMoveTab(p)
  \/ \E p \in PassIds : PassFinally(p)
  \/ \E e \in events : OnMoved(e)

SpecOrganize == InitOrganize /\ [][NextOrganize]_vars

\* the same with a user who drags tabs, MaxExternal times
InitOrganizeUser == InitOrganizeWith(MaxExternal)

NextOrganizeUser ==
  \/ NextOrganize
  \/ \E t \in TabIds, i \in 0..(MaxTabs - 1) : UserMovesTab(t, i)

SpecOrganizeUser == InitOrganizeUser /\ [][NextOrganizeUser]_vars

\* the host invariant of every strip
HostInvariant == HostOk(order, tabs)

\* C1: a pass that ran to its end (finally) with no other change to the
\* window in between, and that was not cut short by a failing group move,
\* leaves every grouped tab before every ungrouped unpinned tab.
C1_GroupedBeforeUngrouped ==
  \A p \in PassIds :
     passes[p].pc = "finally" /\ ~passes[p].interleaved /\ ~passes[p].aborted
       => Ordered(order[passes[p].windowId], tabs)

\* C1 witness: such a pass has ended on a window that was out of order when
\* the pass took its snapshot, and that holds two groups and an ungrouped tab.
C1_Witness ==
  \E p \in PassIds :
     /\ passes[p].pc = "finally" /\ ~passes[p].interleaved /\ ~passes[p].aborted
     /\ passes[p].unorderedAtStart
     /\ Cardinality(GroupsOfWindow(order, tabs, passes[p].windowId)) >= 2
     /\ Ordered(order[passes[p].windowId], tabs)

\* C2: for every window at most one organizeWindow pass is between its
\* first and its last host call.
C2_OnePassPerWindow ==
  \A w \in Windows : Cardinality(Running(passes, w)) <= 1

\* C2 witness: a debounce timer fired while a pass of its window was running,
\* the call was turned away and the pass is still running.
C2_Witness ==
  \E w \in Windows : Running(passes, w) # {} /\ hist.dropped

\* the pending debounce timers of window w
DebounceTimers(w) == {x \in timers : x.kind = "organize" /\ x.key = w}

\* a window is quiescent: no debounce timer, no pass, no event to handle
Quiescent(w) ==
  /\ DebounceTimers(w) = {}
  /\ Running(passes, w) = {}
  /\ \A e \in events : e.windowId # w

\* C5 (as claimed): whenever a window has come to rest, its grouped tabs
\* stand before its ungrouped unpinned tabs.
C5_QuiescentIsOrdered ==
  \A w \in Windows : Quiescent(w) => Ordered(order[w], tabs)

\* C6: at most one debounce timer per window is pending, and it is the one
\* organizeTimers holds: a request that finds a timer pending cancels it.
C6_OneDebounceTimer ==
  \A w \in Windows :
     /\ Cardinality(DebounceTimers(w)) <= 1
     /\ \A x \in DebounceTimers(w) : organizeTimers[w] = x.id
     /\ (organizeTimers[w] # NoTimer => DebounceTimers(w) # {})

\* C6 witness: a pending timer that replaced a pending timer.
C6_Witness ==
  \E x \in timers : x.kind = "organize" /\ x.coalesced

\* C7 (as claimed): no pass is ever started by a request that arrived while a
\* pass of the window was running.
C7_LateRequestStartsNoPass ==
  \A p \in PassIds : passes[p].pc # "idle" => ~passes[p].lateRequest

\* C7 (amended): when the debounce timer of a window fires, the call starts
\* no pass if the window is being organized at that moment and starts a pass
\* otherwise, whenever the request was made.
C7_DroppedOnlyWhileRunning ==
  [][\A w \in Windows :
        organizeTimers[w] # NoTimer /\ organizeTimers'[w] = NoTimer
          => IF w \in organizingWindows
             THEN passes' = passes /\ organizingWindows' = organizingWindows
             ELSE Running(passes', w) # {} /\ w \in organizingWindows']_vars

\* C7 witness: the timer of a request made during a pass is still pending
\* when that pass has ended.
C7_Witness ==
  \E x \in timers : x.kind = "organize" /\ x.lateRequest /\ x.key \notin organizingWindows

\* ------------------------------------------------- the duplicate merger
\* the title the dedupes are about, another title, and the color of groups
DedupeTitle == "T"
OtherTitle == "U"
GroupColor == "blue"

\* Window 1 in any layout, every group titled DedupeTitle or OtherTitle, the
\* host having just reported the groups titled DedupeTitle as updated; no
\* timer is pending.
InitDedupe ==
  /\ \E l \in Layouts : order = LayoutOrder(l) /\ tabs = LayoutTabs(l)
  /\ \E ti \in [GroupIds -> {DedupeTitle, OtherTitle}] :
       tabGroups = Collect(order, tabs, [g \in GroupIds |-> [title |-> ti[g], color |-> GroupColor]])
  /\ storage = [groupingRules |-> <<>>, autoClosePatterns |-> <<>>]
  /\ timers = {}
  /\ organizeTimers = [w \in Windows |-> NoTimer]
  /\ autoCloseTimers = [t \in TabIds |-> NoTimer]
  /\ events = {Event("tabGroups.onUpdated", 1, 0, GroupInfo(tabGroups, g)) :
                 g \in SameTitle(order, tabs, tabGroups, 1, DedupeTitle)}
  /\ organizingWindows = {}
  /\ passes = [p \in PassIds |-> IdlePass]
  /\ dedupes = [d \in DedupeIds |-> IdleDedupe]
  /\ assigns = [a \in AssignIds |-> IdleAssign]
  /\ closers = [c \in CloserIds |-> IdleCloser]
  /\ budget = MaxExternal
  /\ hist = NoHist

\* the dedupes, the listeners of the events they cause and a user who gives
\* groups the title; the debounce timer of the organizer does not expire
NextDedupe ==
  \/ \E e \in events, d \in DedupeIds : OnGroupUpdated(e, d)
  \/ \E d \in DedupeIds : DedupeQueryGroups(d)
  \/ \E d \in DedupeIds : DedupeQueryTabs(d)
  \/ \E d \in DedupeIds : DedupeGroup(d)
  \/ \E d \in DedupeIds : DedupeUpdate(d)
  \/ \E d \in DedupeIds : DedupeReturn(d)
  \/ \E e \in events : OnMoved(e)
  \/ \E g \in GroupIds : UserRenamesGroup(g, DedupeTitle)

SpecDedupe == InitDedupe /\ [][NextDedupe]_vars

\* C3: a dedupeGroups call that ran alone, without a host failure, on a window
\* with two or more groups of its title has on return left exactly one group
\* of the title, the one with the smallest of the original ids, whose tabs
\* are the tabs of all the original groups of the title.
C3_LoneDedupeMerges ==
  \A d \in DedupeIds :
     LET r == dedupes[d] IN
       r.pc = "return" /\ r.alone /\ ~r.failed /\ Cardinality(r.sameTitle) >= 2
         => /\ SameTitle(order, tabs, tabGroups, r.windowId, r.title) = {Min(r.sameTitle)}
            /\ Range(TabsOfGroup(order, tabs, Min(r.sameTitle))) = r.members

\* C3 witness: a call that ran alone on three groups of the title has returned
C3_Witness ==
  \E d \in DedupeIds :
     /\ dedupes[d].pc = "return" /\ dedupes[d].alone /\ ~dedupes[d].failed
     /\ Cardinality(dedupes[d].sameTitle) = 3
     /\ Cardinality(dedupes[d].members) = 3

\* C8: no step of any dedupeGroups call, of a listener or of the host takes a
\* tab out of the groups titled DedupeTitle: a tab that is in such a group
\* is open and in such a group after the step, also when the call fails.
C8_NoTabLost ==
  [][\A w \in Windows : \A t \in TabIds :
        t \in TitledTabs(order, tabs, tabGroups, w, DedupeTitle)
          => t \in TitledTabs(order', tabs', tabGroups', w, DedupeTitle)]_vars

\* C8 witness: two interleaved calls have returned, one of them after a host
\* failure, the other after it had moved tabs
C8_Witness ==
  \E d, e \in DedupeIds :
     /\ d # e /\ dedupes[d].pc = "return" /\ dedupes[e].pc = "return"
     /\ dedupes[d].failed /\ ~dedupes[d].alone
     /\ ~dedupes[e].failed /\ ~dedupes[e].alone /\ Cardinality(dedupes[e].sameTitle) >= 2
     /\ Cardinality(SameTitle(order, tabs, tabGroups, 1, DedupeTitle)) = 1

\* C9: when a dedupeGroups call has returned without a host failure, and no
\* group was retitled since its snapshot, the window holds at most one group
\* of its title.
C9_AtMostOneOnReturn ==
  \A d \in DedupeIds :
     LET r == dedupes[d] IN
       r.pc = "return" /\ ~r.failed /\ ~r.stale
         => Cardinality(SameTitle(order, tabs, tabGroups, r.windowId, r.title)) <= 1

\* ------------------------------------------------- the auto-close timers
\* a url an auto-close rule matches and one that none matches
CloseUrl == Url("https:", <<"c">>, <<"/">>)
KeepUrl == Url("https:", <<"k">>, <<"/">>)

\* the stored autoClosePatterns: a rule record, or a legacy string
AutoCloseStores ==
  { <<[kind |-> "object", pattern |-> <<"c">>, delaySeconds |-> Num(20),
       delay |-> Undefined]>>,
    <<[kind |-> "string", pattern |-> <<" ", "c">>, delaySeconds |-> Undefined,
       delay |-> Undefined]>> }

\* Window 1 with all tabs but the last open and ungrouped, up to MaxPinned of
\* them pinned, each showing CloseUrl or KeepUrl and each having just
\* finished loading; no grouping rules.
InitAutoClose ==
  /\ order = [w \in Windows |-> IF w = 1 THEN [i \in 1..(MaxTabs - 1) |-> i] ELSE <<>>]
  /\ \E k \in 0..MaxPinned, u \in [TabIds -> {CloseUrl, KeepUrl}] :
       tabs = [t \in TabIds |->
                 IF t < MaxTabs
                 THEN [pinned |-> t <= k, groupId |-> TAB_GROUP_ID_NONE, url |-> u[t]]
                 ELSE ClosedTab]
  /\ tabGroups = [g \in GroupIds |-> NoGroup]
  /\ \E st \in AutoCloseStores : storage = [groupingRules |-> <<>>, autoClosePatterns |-> st]
  /\ timers = {}
  /\ organizeTimers = [w \in Windows |-> NoTimer]
  /\ autoCloseTimers = [t \in TabIds |-> NoTimer]
  /\ events = {TabEvent("tabs.onUpdated", order, tabs, t, "complete") : t \in OpenTabs(order)}
  /\ organizingWindows = {}
  /\ passes = [p \in PassIds |-> IdlePass]
  /\ dedupes = [d \in DedupeIds |-> IdleDedupe]
  /\ assigns = [a \in AssignIds |-> IdleAssign]
  /\ closers = [c \in CloserIds |-> IdleCloser]
  /\ budget = MaxExternal
  /\ hist = NoHist

\* The user reloads tab t (not an action of the worker): the host dispatches
\* tabs.onUpdated when the load has finished.
UserReloadsTab(t) ==
  /\ budget > 0 /\ t \in OpenTabs(order)
  /\ budget' = budget - 1
  /\ events' = events \cup {TabEvent("tabs.onUpdated", order, tabs, t, "complete")}
  /\ UNCHANGED <<order, tabs, tabGroups, storage, timers, organizingWindows,
                 organizeTimers, autoCloseTimers, passes, hist, otherTasks>>

\* The user closes tab t (not an action of the worker).
UserClosesTab(t) ==
  /\ budget > 0 /\ t \in OpenTabs(order)
  /\ budget' = budget - 1
  /\ LET res == HostRemoveTab(order, tabs, tabGroups, t)
     IN /\ order' = res.order /\ tabs' = res.tabs /\ tabGroups' = res.tabGroups
        /\ events' = events \cup res.events
  /\ UNCHANGED <<storage, timers, organizingWindows, organizeTimers, autoCloseTimers,
                 passes, hist, otherTasks>>

\* the tab listeners, the calls they start, the auto-close timers and a user
\* who reloads and closes tabs; the debounce timer of the organizer does not
\* expire
NextAutoClose ==
  \/ \E e \in events : OnTabUpdated(e)
  \/ \E e \in events : OnTabRemoved(e)
  \/ \E a \in AssignIds : AssignTabsGet(a)
  \/ \E a \in AssignIds : AssignGetGroups(a)
  \/ \E c \in CloserIds : CloserRules(c)
  \/ \E x \in timers, c \in CloserIds : AutoCloseTimerFires(x, c)
  \/ \E c \in CloserIds : CloserGet(c)
  \/ \E c \in CloserIds : CloserLatest(c)
  \/ \E c \in CloserIds : CloserRemove(c)
  \/ \E t \in TabIds : UserReloadsTab(t)
  \/ \E t \in TabIds : UserClosesTab(t)

SpecAutoClose == InitAutoClose /\ [][NextAutoClose]_vars

\* the auto-close timers pending for tab t
AutoCloseTimersOf(t) == {x \in timers : x.kind = "autoClose" /\ x.key = t}

\* C10: for every tab at most one auto-close timer is pending, and it is the
\* one the map holds for the tab: a call that schedules for a tab with a
\* pending timer has cancelled that timer.
C10_OneAutoCloseTimer ==
  \A t \in TabIds :
     /\ Cardinality(AutoCloseTimersOf(t)) <= 1
     /\ \A x \in AutoCloseTimersOf(t) : autoCloseTimers[t] = x.id

\* C10 witness: a timer is pending that replaced a pending timer of its tab
C10_Witness ==
  \E x \in timers : x.kind = "autoClose" /\ x.coalesced /\ autoCloseTimers[x.key] = x.id

\* --------------------------------------------------- the group assignment
\* the stored grouping rules: one rule, titled DedupeTitle, for host c
RuleStore == <<[title |-> <<DedupeTitle>>, color |-> GroupColor, patterns |-> << <<"c">> >>]>>

\* the urls of tabs 1 and 2, which the rule matches
MatchUrls == <<Url("https:", <<"c">>, <<"/">>), Url("http:", <<"c">>, <<"/", "x">>)>>

\* Window 1 with tabs 1 and 2 showing urls the rule matches and, between
\* them, the other tabs showing KeepUrl, all ungrouped and unpinned; the host
\* has just dispatched, for each of tabs 1 and 2, that it was created or
\* that it finished loading.  No auto-close rules.
InitAssign ==
  /\ order = [w \in Windows |->
                IF w = 1 THEN [i \in 1..MaxTabs |-> IF i = 1 THEN 1
                                                   ELSE IF i = MaxTabs THEN 2 ELSE i + 1]
                ELSE <<>>]
  /\ tabs = [t \in TabIds |->
               [pinned |-> FALSE, groupId |-> TAB_GROUP_ID_NONE,
                url |-> IF t \in {1, 2} THEN MatchUrls[t] ELSE KeepUrl]]
  /\ tabGroups = [g \in GroupIds |-> NoGroup]
  /\ storage = [groupingRules |-> RuleStore, autoClosePatterns |-> <<>>]
  /\ timers = {}
  /\ organizeTimers = [w \in Windows |-> NoTimer]
  /\ autoCloseTimers = [t \in TabIds |-> NoTimer]
  /\ \E k \in [{1, 2} -> {"tabs.onCreated", "tabs.onUpdated"}] :
       events = {TabEvent(k[t], order, tabs, t, IF k[t] = "tabs.onUpdated" THEN "complete" ELSE "")
                   : t \in {1, 2}}
  /\ organizingWindows = {}
  /\ passes = [p \in PassIds |-> IdlePass]
  /\ dedupes = [d \in DedupeIds |-> IdleDedupe]
  /\ assigns = [a \in AssignIds |-> IdleAssign]
  /\ closers = [c \in CloserIds |-> IdleCloser]
  /\ budget = 0
  /\ hist = NoHist

\* the tab and group listeners and the calls they start, the host refusing
\* no call; the debounce timer of the organizer does not expire
NextAssign ==
  \/ \E e \in events : OnTabCreated(e)
  \/ \E e \in events : OnTabUpdated(e)
  \/ \E e \in events : OnGroupCreated(e)
  \/ \E e \in events, d \in DedupeIds : OnGroupUpdated(e, d)
  \/ \E e \in events : OnMoved(e)
  \/ \E a \in AssignIds : AssignTabsGet(a)
  \/ \E a \in AssignIds : AssignGetGroups(a)
  \/ \E a \in AssignIds : AssignQueryGroups(a)
  \/ \E a \in AssignIds : AssignGroupExisting(a)
  \/ \E a \in AssignIds : AssignGroupNew(a)
  \/ \E a \in AssignIds : AssignUpdateNew(a)
  \/ \E a \in AssignIds : AssignAfterDedupe(a)
  \/ \E d \in DedupeIds : DedupeQueryGroups(d)
  \/ \E d \in DedupeIds : DedupeQueryTabs(d)
  \/ \E d \in DedupeIds : DedupeGroup(d)
  \/ \E d \in DedupeIds : DedupeUpdate(d)
  \/ \E d \in DedupeIds : DedupeReturn(d)
  \/ \E c \in CloserIds : CloserRules(c)

SpecAssign == InitAssign /\ [][NextAssign]_vars

\* every call has finished and every dispatched event is handled
AllFinished ==
  /\ events = {}
  /\ \A a \in AssignIds : assigns[a].pc = "idle"
  /\ \A d \in DedupeIds : dedupes[d].pc = "idle"
  /\ \A c \in CloserIds : closers[c].pc = "idle"

\* the groups of window w that have the title
GroupsTitled(w, title) ==
  {g \in GroupIds : tabGroups[g].title = title /\ \E t \in Range(order[w]) : tabs[t].groupId = g}

UserNavigatesTab(t, url) ==
  /\ budget > 0 /\ t \in OpenTabs(order) /\ tabs[t].url # url
  /\ budget' = budget - 1
  /\ tabs' = [tabs EXCEPT ![t].url = url]
  /\ events' = events \cup {TabEvent("tabs.onUpdated", order, tabs', t, "url")}
  /\ UNCHANGED <<order, tabGroups, storage, timers, organizingWindows,
                 organizeTimers, autoCloseTimers, passes, hist, otherTasks>>

\* The user pins tab t (not an action of the worker).
UserPinsTab(t) ==
  /\ budget > 0 /\ t \in OpenTabs(order) /\ ~tabs[t].pinned
  /\ budget' = budget - 1
  /\ LET res == HostPinTab(order, tabs, tabGroups, t)
     IN /\ order' = res.order /\ tabs' = res.tabs /\ tabGroups' = res.tabGroups
        /\ events' = events \cup res.events
  /\ passes' = Disturb(passes, WindowOf(order, t))
  /\ hist' = [hist EXCEPT !.organized = @ \ {WindowOf(order, t)}]
  /\ UNCHANGED <<storage, timers, organizingWindows, organizeTimers, autoCloseTimers,
                 otherTasks>>

\* The user saves other auto-close rules on the options page (not an action
\* of the worker): the host dispatches storage.onChanged.
UserSetsAutoCloseRules(st) ==
  /\ budget > 0 /\ storage.autoClosePatterns # st
  /\ budget' = budget - 1
  /\ storage' = [storage EXCEPT !.autoClosePatterns = st]
  /\ events' = events \cup {[Event("storage.onChanged", NoWindow, 0, NoGroupInfo)
                               EXCEPT !.change = "autoClosePatterns"]}
  /\ UNCHANGED <<order, tabs, tabGroups, timers, organizingWindows, organizeTimers,
                 autoCloseTimers, passes, hist, otherTasks>>

\* the auto-close rule of the window below
AutoCloseStore ==
  <<[kind |-> "object", pattern |-> <<"c">>, delaySeconds |-> Num(30), delay |-> Undefined]>>

\* Window 1 with all tabs but the last open, unpinned and ungrouped, each
\* showing CloseUrl and each having just finished loading; one auto-close
\* rule for that url, no grouping rules.
InitRevalidate ==
  /\ order = [w \in Windows |-> IF w = 1 THEN [i \in 1..(MaxTabs - 1) |-> i] ELSE <<>>]
  /\ tabs = [t \in TabIds |->
               IF t < MaxTabs
               THEN [pinned |-> FALSE, groupId |-> TAB_GROUP_ID_NONE, url |-> CloseUrl]
               ELSE ClosedTab]
  /\ tabGroups = [g \in GroupIds |-> NoGroup]
  /\ storage = [groupingRules |-> <<>>, autoClosePatterns |-> AutoCloseStore]
  /\ timers = {}
  /\ organizeTimers = [w \in Windows |-> NoTimer]
  /\ autoCloseTimers = [t \in TabIds |-> NoTimer]
  /\ events = {TabEvent("tabs.onUpdated", order, tabs, t, "complete") : t \in OpenTabs(order)}
  /\ organizingWindows = {}
  /\ passes = [p \in PassIds |-> IdlePass]
  /\ dedupes = [d \in DedupeIds |-> IdleDedupe]
  /\ assigns = [a \in AssignIds |-> IdleAssign]
  /\ closers = [c \in CloserIds |-> IdleCloser]
  /\ budget = MaxExternal
  /\ hist = NoHist

\* the listeners, the calls they start, the auto-close timers and a user who
\* navigates, pins and closes tabs and changes the auto-close rules; the
\* debounce timer of the organizer does not expire
NextRevalidate ==
  \/ \E e \in events : OnTabUpdated(e)
  \/ \E e \in events : OnTabRemoved(e)
  \/ \E e \in events : OnStorageChanged(e)
  \/ \E e \in events : OnMoved(e)
  \/ \E a \in AssignIds : AssignTabsGet(a)
  \/ \E a \in AssignIds : AssignGetGroups(a)
  \/ \E c \in CloserIds : CloserRules(c)
  \/ \E x \in timers, c \in CloserIds : AutoCloseTimerFires(x, c)
  \/ \E c \in CloserIds : CloserGet(c)
  \/ \E c \in CloserIds : CloserLatest(c)
  \/ \E c \in CloserIds : CloserRemove(c)
  \/ \E t \in TabIds : UserNavigatesTab(t, KeepUrl)
  \/ \E t \in TabIds : UserPinsTab(t)
  \/ \E t \in TabIds : UserClosesTab(t)
  \/ UserSetsAutoCloseRules(<<>>)

SpecRevalidate == InitRevalidate /\ [][NextRevalidate]_vars

\* C11: a callback that has requested the removal of its tab had read the
\* tab (it exists), read it unpinned, and found a rule matching the url it
\* read among the rules it read when it fired, so not with an emptied rule
\* set and not for a tab read on a url no rule matches.
C11_RemovalOnlyIfStillMatching ==
  \A c \in CloserIds :
     closers[c].pc = "remove"
       => /\ closers[c].fresh.id = closers[c].tab.id
          /\ ~closers[c].fresh.pinned
          /\ closers[c].rules # <<>>
          /\ \E i \in 1..Len(closers[c].rules) :
                patternMatchesUrl(closers[c].rules[i].pattern,
                                  getHostFromUrl(closers[c].fresh.url),
                                  getPathFromUrl(closers[c].fresh.url))

\* C11 witness: after the user had changed a tab or the rules during the
\* wait, one callback has let its tab live and another has requested the
\* removal of its tab
C11_Witness ==
  /\ budget < MaxExternal /\ hist.spared
  /\ \E c \in CloserIds : closers[c].pc = "remove"

\* C12: when a callback requests the removal of its tab, the tab is at that
\* moment open, unpinned and on a url that a rule of the rules read matches.
C12_QualifiesAtRequest ==
  \A c \in CloserIds :
     closers[c].pc = "remove"
       => /\ closers[c].current.id = closers[c].tab.id
          /\ ~closers[c].current.pinned
          /\ StillMatch(closers[c].current, closers[c].rules)

\* C13: for a tab that is gone and whose tab-removed event has been handled,
\* no auto-close timer is pending, whatever calls were suspended when it
\* went.
C13_NoTimerAfterRemoval ==
  \A t \in TabIds :
     t \notin OpenTabs(order) /\ ~(\E e \in events : e.type = "tabs.onRemoved" /\ e.tabId = t)
       => AutoCloseTimersOf(t) = {}

\* ------------------------------------------------ failures of host calls
\* Window 1 with all tabs but the last open, unpinned and ungrouped, each
\* showing a url the stored rule matches; the host has just dispatched either
\* runtime.onInstalled or that tab 1 was created.  No auto-close rules.
InitSweep ==
  /\ order = [w \in Windows |-> IF w = 1 THEN [i \in 1..(MaxTabs - 1) |-> i] ELSE <<>>]
  /\ tabs = [t \in TabIds |->
               IF t < MaxTabs
               THEN [pinned |-> FALSE, groupId |-> TAB_GROUP_ID_NONE, url |-> MatchUrls[1]]
               ELSE ClosedTab]
  /\ tabGroups = [g \in GroupIds |-> NoGroup]
  /\ storage = [groupingRules |-> RuleStore, autoClosePatterns |-> <<>>]
  /\ timers = {}
  /\ organizeTimers = [w \in Windows |-> NoTimer]
  /\ autoCloseTimers = [t \in TabIds |-> NoTimer]
  /\ events \in {{Event("runtime.onInstalled", NoWindow, 0, NoGroupInfo)},
                 {TabEvent("tabs.onCreated", order, tabs, 1, "")}}
  /\ organizingWindows = {}
  /\ passes = [p \in PassIds |-> IdlePass]
  /\ dedupes = [d \in DedupeIds |-> IdleDedupe]
  /\ assigns = [a \in AssignIds |-> IdleAssign]
  /\ closers = [c \in CloserIds |-> IdleCloser]
  /\ budget = MaxExternal
  /\ hist = NoHist

\* the start-up sweep, the tab-created listener and the calls they start
\* (which here never find two groups of one title), the group listeners, and
\* a user who closes tabs; the debounce timer of the organizer does not expire
NextSweep ==
  \/ \E e \in events : OnInstalledOrStartup(e)
  \/ \E e \in events : OnTabCreated(e)
  \/ \E e \in events : OnTabRemoved(e)
  \/ \E e \in events : OnGroupCreated(e)
  \/ \E e \in events, d \in DedupeIds : OnGroupUpdated(e, d)
  \/ \E a \in AssignIds : AssignSweepQuery(a)
  \/ \E a \in AssignIds : AssignSweepNext(a)
  \/ \E a \in AssignIds : AssignGetGroups(a)
  \/ \E a \in AssignIds : AssignQueryGroups(a)
  \/ \E a \in AssignIds : AssignGroupExisting(a)
  \/ \E a \in AssignIds : AssignGroupNew(a)
  \/ \E a \in AssignIds : AssignUpdateNew(a)
  \/ \E a \in AssignIds : AssignAfterDedupe(a)
  \/ \E a \in AssignIds : AssignRejected(a)
  \/ \E d \in DedupeIds : DedupeQueryGroups(d)
  \/ \E d \in DedupeIds : DedupeReturn(d)
  \/ \E c \in CloserIds : CloserRules(c)
  \/ \E t \in TabIds : UserClosesTab(t)

SpecSweep == InitSweep /\ [][NextSweep]_vars

\* C14: a failure of a host call made for one tab is caught within
\* processTab or its caller: the promise of processTab is rejected only
\* towards processTabId, never towards the tab-created listener and never
\* towards sweepAllTabs, whose loop and scheduling go on.
C14_FailureIsCaught ==
  \A a \in AssignIds : assigns[a].pc = "rejected" => assigns[a].origin = "id"

\* C15: a pass that has reached its end has asked for the move of every
\* group and every ungrouped tab of its snapshot: nothing is left over but,
\* after a failed group move, the group whose move failed.
C15_FailedMoveIsSwallowed ==
  \A p \in PassIds :
     passes[p].pc = "finally"
       => /\ passes[p].ungroupedTabs = <<>>
          /\ \/ passes[p].orderedGroups = <<>>
             \/ passes[p].aborted /\ Len(passes[p].orderedGroups) = 1

\* ------------------------------------------- relative order and idempotence
\* tab t stands before tab u in the strip s
Before(s, t, u) == IndexOf(s, t) < IndexOf(s, u)

\* the first tab of group g in the strip s
FirstOfGroup(s, g) == s[Min({i \in 1..Len(s) : tabs[s[i]].groupId = g})]

\* the ungrouped unpinned tabs of the strip s
Loose(s) == {t \in Range(s) : ~tabs[t].pinned /\ tabs[t].groupId = TAB_GROUP_ID_NONE}

\* C16: a pass that ran undisturbed to its end leaves the groups in the order
\* their first tabs had in its snapshot, the tabs of each group in the order
\* they had in the snapshot, and the ungrouped unpinned tabs in the order they
\* had in the snapshot.
C16_RelativeOrderKept ==
  \A p \in PassIds :
     passes[p].pc = "finally" /\ ~passes[p].interleaved /\ ~passes[p].aborted
       => LET w == passes[p].windowId
              was == passes[p].snapshot
              now == order[w]
          IN /\ \A g, h \in GroupsOfWindow(order, tabs, w) :
                   Before(was, FirstOfGroup(was, g), FirstOfGroup(was, h))
                     => Before(now, FirstOfGroup(now, g), FirstOfGroup(now, h))
             /\ \A t, u \in Range(now) :
                   /\ tabs[t].groupId = tabs[u].groupId
                   /\ tabs[t].groupId # TAB_GROUP_ID_NONE
                   /\ Before(was, t, u)
                   => Before(now, t, u)
             /\ \A t, u \in Loose(now) : Before(was, t, u) => Before(now, t, u)

\* C16 witness: such a pass has ended on a window with two groups whose
\* strip is no longer the strip of the snapshot
C16_Witness ==
  \E p \in PassIds :
     /\ passes[p].pc = "finally" /\ ~passes[p].interleaved /\ ~passes[p].aborted
     /\ passes[p].snapshot # order[passes[p].windowId]
     /\ Cardinality(GroupsOfWindow(order, tabs, passes[p].windowId)) >= 2

\* C17: a pass on a window that has not changed since an undisturbed pass
\* of it ran to its end makes no move that changes a position.
C17_SecondPassMovesNothing ==
  \A p \in PassIds :
     passes[p].second /\ ~passes[p].interleaved
       => ~passes[p].moved /\ order[passes[p].windowId] = passes[p].snapshot

\* C17 witness: such a second pass has ended, on a window with a group and
\* an ungrouped tab that the first pass has put in order
C17_Witness ==
  \E p \in PassIds :
     /\ passes[p].pc = "finally" /\ passes[p].second /\ ~passes[p].interleaved
     /\ Ordered(order[passes[p].windowId], tabs)
     /\ Loose(order[passes[p].windowId]) # {}
     /\ GroupsOfWindow(order, tabs, passes[p].windowId) # {}

\* ------------------------------------------------------- the pinned tabs
\* the window of the organizer with a user who pins tabs, one more time
\* than MaxExternal
InitPinned == InitOrganizeWith(MaxExternal + 1)

\* the organizer, the listeners of the events of its moves and of a pin, and
\* the user who pins tabs
NextPinned ==
  \/ NextOrganize
  \/ \E e \in events : OnTabUpdated(e)
  \/ \E t \in TabIds : UserPinsTab(t)

SpecPinned == InitPinned /\ [][NextPinned]_vars

\* the pinned tabs of window w in their order
PinnedTabs(ord, tb, w) == SelectSeq(ord[w], LAMBDA t : tb[t].pinned)

\* pass p issues chrome.tabs.move in this step
IssuesTabMove(p) ==
  /\ passes'[p].pc = "moveTab"
  /\ passes[p].pc # "moveTab" \/ passes'[p].ungroupedTabs # passes[p].ungroupedTabs

\* pass p issues chrome.tabGroups.move in this step
IssuesGroupMove(p) ==
  /\ passes'[p].pc = "moveGroup"
  /\ passes[p].pc # "moveGroup"

\* a host call of pass p is answered in this step
Answered(p) ==
  /\ passes[p].pc \notin {"idle", "finally"}
  /\ <<passes'[p].pc, passes'[p].orderedGroups, passes'[p].ungroupedTabs>>
       # <<passes[p].pc, passes[p].orderedGroups, passes[p].ungroupedTabs>>

\* C18: a tab for which a pass issues a move is not pinned, the index of a
\* move a pass issues is not smaller than the number of pinned tabs, and no
\* step of a pass changes which tabs are pinned or their order.
C18_PinnedPrefixUntouched ==
  [][\A p \in PassIds :
        LET w == passes'[p].windowId
        IN /\ IssuesTabMove(p) => ~tabs'[Head(passes'[p].ungroupedTabs)].pinned
           /\ IssuesTabMove(p) \/ IssuesGroupMove(p)
                => passes'[p].currentIndex >= PinnedCount(order', tabs', w)
           /\ Answered(p)
                => PinnedTabs(order', tabs', passes[p].windowId)
                     = PinnedTabs(order, tabs, passes[p].windowId)]_vars

\* ------------------------------------------------------- a window closes
\* The host closes window w with all its tabs: tabs.onRemoved is dispatched
\* for each tab with removeInfo.isWindowClosing set (part_001:562).
HostCloseWindow(ord, tb, tg, w) ==
  LET gone == Range(ord[w])
      ord2 == [ord EXCEPT ![w] = <<>>]
      tb2 == [t \in TabIds |-> IF t \in gone THEN ClosedTab ELSE tb[t]]
  IN [order |-> ord2, tabs |-> tb2, tabGroups |-> Collect(ord2, tb2, tg),
      events |-> {[Event("tabs.onRemoved", w, t, NoGroupInfo)
                     EXCEPT !.change = "isWindowClosing"] : t \in gone}]

\* The user closes window w (not an action of the worker).
UserClosesWindow(w) ==
  /\ budget > 0 /\ order[w] # <<>>
  /\ budget' = budget - 1
  /\ LET res == HostCloseWindow(order, tabs, tabGroups, w)
     IN /\ order' = res.order /\ tabs' = res.tabs /\ tabGroups' = res.tabGroups
        /\ events' = events \cup res.events
  /\ passes' = Disturb(passes, w)
  /\ hist' = [hist EXCEPT !.organized = @ \ {w}, !.closed = @ \cup {w}]
  /\ UNCHANGED <<storage, timers, organizingWindows, organizeTimers, autoCloseTimers,
                 otherTasks>>

\* the organizer, the listeners of the events of its moves and of removed
\* tabs, and a user who closes the window
NextWindowClose ==
  \/ NextOrganize
  \/ \E e \in events : OnTabRemoved(e)
  \/ \E w \in Windows : UserClosesWindow(w)

SpecWindowClose == InitOrganizeUser /\ [][NextWindowClose]_vars

\* window w is closed and the worker has handled the removal of its tabs
Closed(w) ==
  /\ w \in hist.closed
  /\ \A e \in events : ~(e.type = "tabs.onRemoved" /\ e.windowId = w)

\* C19: once a window is closed and the removal of its tabs handled, no
\* debounce timer of it is pending, organizeTimers has no entry for it, and no
\* organizeWindow pass starts for it.
C19_ClosedWindowForgotten ==
  [][\A w \in Windows :
        Closed(w) => /\ organizeTimers[w] = NoTimer
                     /\ DebounceTimers(w) = {}
                     /\ Running(passes', w) \subseteq Running(passes, w)]_vars

\* ------------------------------------------------------- findMatchingGroup
\* the patterns of the stored rules below: a host, a host with a path, a
\* host with a path glob, a subdomain wildcard, and another host
MatchPatterns ==
  { <<"c">>, <<"c", "/", "x">>, <<"c", "/", "*">>, <<"*", ".", "c">>, <<"k">> }

\* the stored rules: with a title of the model or none, a color that is
\* allowed or not, and one or two patterns
MatchRules ==
  { [title |-> x[1], color |-> x[2], patterns |-> ps] :
      x \in {<< <<DedupeTitle>>, GroupColor>>, << <<OtherTitle>>, "bogus">>,
            << <<>>, GroupColor>>},
      ps \in {<<q>> : q \in MatchPatterns} \cup {<< <<"k">>, <<"c">> >>, << <<"c", "/", "x">>, <<>> >>} }

\* the stored rule lists of up to MaxRules rules
MatchRuleLists == UNION {[1..n -> MatchRules] : n \in 0..MaxRules}

\* the urls tab 1 can show: matched by several patterns, by a path pattern,
\* by the subdomain wildcard, by the other host, and one without host
MatchInputs ==
  { Url("https:", <<"c">>, <<"/">>), Url("http:", <<"C">>, <<"/", "x">>),
    Url("https:", <<"s", ".", "c">>, <<"/", "y">>), Url("https:", <<"k">>, <<>>),
    Url("chrome:", <<"c">>, <<"/">>) }

\* Window 1 with the single tab 1 showing one of MatchInputs, one of
\* MatchRuleLists stored, and processTab called for the tab (part_001:443-453).
InitMatch ==
  /\ order = [w \in Windows |-> IF w = 1 THEN <<1>> ELSE <<>>]
  /\ \E u \in MatchInputs :
       tabs = [t \in TabIds |->
                 IF t = 1 THEN [pinned |-> FALSE, groupId |-> TAB_GROUP_ID_NONE, url |-> u]
                 ELSE ClosedTab]
  /\ tabGroups = [g \in GroupIds |-> NoGroup]
  /\ \E rl \in MatchRuleLists : storage = [groupingRules |-> rl, autoClosePatterns |-> <<>>]
  /\ timers = {}
  /\ organizeTimers = [w \in Windows |-> NoTimer]
  /\ autoCloseTimers = [t \in TabIds |-> NoTimer]
  /\ events = {}
  /\ organizingWindows = {}
  /\ passes = [p \in PassIds |-> IdlePass]
  /\ dedupes = [d \in DedupeIds |-> IdleDedupe]
  /\ assigns = processTab([a \in AssignIds |-> IdleAssign], TabInfo(order, tabs, 1))
  /\ closers = [c \in CloserIds |-> IdleCloser]
  /\ budget = 0
  /\ hist = NoHist

\* part_001:453-455: the rules arrive and findMatchingGroup is applied to the
\* host and path of the tab
FindMatch(a) ==
  /\ assigns[a].pc = "getGroups"
  /\ LET r == assigns[a]
         groups == getGroups(storage.groupingRules)
     IN assigns' = [assigns EXCEPT ![a] =
          [r EXCEPT !.pc = "matched",
                    !.match = findMatchingGroup(getHostFromUrl(r.tab.url),
                                                getPathFromUrl(r.tab.url), groups)]]
  /\ UNCHANGED <<order, tabs, tabGroups, storage, timers, events, organizingWindows,
                 organizeTimers, autoCloseTimers, passes, dedupes, closers, budget, hist>>

NextMatch == \E a \in AssignIds : FindMatch(a)

SpecMatch == InitMatch /\ [][NextMatch]_vars

\* rule i of the rule list matches the url: one of its patterns does
RuleMatches(groups, i, url) ==
  \E j \in 1..Len(groups[i].patterns) :
     patternMatchesUrl(groups[i].patterns[j], getHostFromUrl(url), getPathFromUrl(url))

\* C20: the result of findMatchingGroup is title and color of the rule that
\* matches the url and has no matching rule before it in the list, and it is
\* no match exactly when no rule of the list matches.
C20_FirstMatchingRuleWins ==
  \A a \in AssignIds :
     assigns[a].pc = "matched"
       => LET groups == getGroups(storage.groupingRules)
              url == assigns[a].tab.url
              matching == {i \in 1..Len(groups) : RuleMatches(groups, i, url)}
          IN /\ assigns[a].match = NoMatch <=> matching = {}
             /\ \A i \in matching :
                   (\A k \in matching : i <= k)
                     => assigns[a].match = [title |-> groups[i].title, color |-> groups[i].color]

\* C20 witness: two rules of different titles match the url and the result
\* is the title of the one that comes first
C20_Witness ==
  \E a \in AssignIds :
     /\ assigns[a].pc = "matched"
     /\ LET groups == getGroups(storage.groupingRules)
            url == assigns[a].tab.url
        IN /\ Len(groups) = 2
           /\ RuleMatches(groups, 1, url) /\ RuleMatches(groups, 2, url)
           /\ groups[1].title # groups[2].title
           /\ assigns[a].match.title = groups[1].title

\* ------------------------------------------------- leaving a rule's group
\* a url without a host the worker resolves, though its hostname is the
\* host of the stored rule
NoHostUrl == Url("chrome:", <<"c">>, <<"/">>)

\* the titles of the stored rules
RuleTitles == {Text(RuleStore[i].title) : i \in 1..Len(RuleStore)}

\* Window 1 in one of the Layouts: group 1 has the title of the stored rule,
\* group 2 a title of the user's, group 3 none; tab 2 shows NoHostUrl, the
\* other tabs a url no rule matches.  The host has just dispatched for every
\* tab that it was created, or for every tab that it finished loading.
InitUngroup ==
  /\ \E l \in Layouts :
       /\ order = LayoutOrder(l)
       /\ tabs = [t \in TabIds |->
                    [LayoutTabs(l)[t] EXCEPT !.url = IF t = 2 THEN NoHostUrl ELSE KeepUrl]]
  /\ tabGroups = Collect(order, tabs,
                         [g \in GroupIds |->
                            [title |-> IF g = 1 THEN DedupeTitle
                                       ELSE IF g = 2 THEN OtherTitle ELSE "",
                             color |-> GroupColor]])
  /\ storage = [groupingRules |-> RuleStore, autoClosePatterns |-> <<>>]
  /\ timers = {}
  /\ organizeTimers = [w \in Windows |-> NoTimer]
  /\ autoCloseTimers = [t \in TabIds |-> NoTimer]
  /\ \E k \in {"tabs.onCreated", "tabs.onUpdated"} :
       events = {TabEvent(k, order, tabs, t, IF k = "tabs.onUpdated" THEN "complete" ELSE "")
                   : t \in OpenTabs(order)}
  /\ organizingWindows = {}
  /\ passes = [p \in PassIds |-> IdlePass]
  /\ dedupes = [d \in DedupeIds |-> IdleDedupe]
  /\ assigns = [a \in AssignIds |-> IdleAssign]
  /\ closers = [c \in CloserIds |-> IdleCloser]
  /\ budget = 0
  /\ hist = [NoHist EXCEPT !.was =
               [t \in TabIds |-> IF tabs[t].groupId = TAB_GROUP_ID_NONE THEN NoGroupInfo
                                 ELSE GroupInfo(tabGroups, tabs[t].groupId)]]

\* the tab listeners and the calls they start; the debounce timer of the
\* organizer does not expire
NextUngroup ==
  \/ \E e \in events : OnTabCreated(e)
  \/ \E e \in events : OnTabUpdated(e)
  \/ \E e \in events : OnMoved(e)
  \/ \E a \in AssignIds : AssignTabsGet(a)
  \/ \E a \in AssignIds : AssignGetGroups(a)
  \/ \E a \in AssignIds : AssignGetGroup(a)
  \/ \E a \in AssignIds : AssignUngroup(a)
  \/ \E c \in CloserIds : CloserRules(c)

SpecUngroup == InitUngroup /\ [][NextUngroup]_vars

\* a rule of the stored rules matches the url
SomeRuleMatches(url) ==
  /\ url.protocol \in {"http:", "https:"}
  /\ \E i \in 1..Len(RuleStore) : \E j \in 1..Len(RuleStore[i].patterns) :
        patternMatchesUrl(RuleStore[i].patterns[j], url.hostname, url.pathname)

\* C21: when all tabs have been processed, every unpinned tab that no rule
\* matches and that was in a group with the title of a rule is ungrouped,
\* and a pass of its window is scheduled.
C21_StaleMemberUngrouped ==
  AllFinished =>
    \A t \in OpenTabs(order) :
       /\ ~tabs[t].pinned /\ ~SomeRuleMatches(tabs[t].url)
       /\ hist.was[t].id # TAB_GROUP_ID_NONE /\ hist.was[t].title \in RuleTitles
       => /\ tabs[t].groupId = TAB_GROUP_ID_NONE
          /\ organizeTimers[WindowOf(order, t)] # NoTimer

\* C21 witness: all tabs are processed, two tabs that were in the group of
\* the rule are ungrouped and a pass is scheduled
C21_Witness ==
  /\ AllFinished
  /\ Cardinality({t \in OpenTabs(order) :
                    /\ hist.was[t].title \in RuleTitles /\ hist.was[t].id # TAB_GROUP_ID_NONE
                    /\ tabs[t].groupId = TAB_GROUP_ID_NONE}) >= 2
  /\ \E w \in Windows : organizeTimers[w] # NoTimer

\* processTab invocation a is handling a tab that no rule matches and that
\* sits in a group whose title is the title of no rule
InUserGroup(a) ==
  LET tab == assigns[a].tab
  IN /\ assigns[a].pc \in {"getGroups", "getGroup", "ungroup"}
     /\ ~SomeRuleMatches(tab.url)
     /\ tab.groupId # TAB_GROUP_ID_NONE
     /\ tabs[tab.id].groupId = tab.groupId
     /\ tabGroups[tab.groupId].title \notin RuleTitles

\* C22: no step of a processTab invocation that handles a tab no rule
\* matches, sitting in a group with the title of no rule, changes a tab
\* position, a group membership, a group or a timer, and the invocation
\* never comes to ask for the ungrouping or for a group of a rule.
C22_UserGroupUntouched ==
  [][\A a \in AssignIds :
        InUserGroup(a) /\ assigns'[a] # assigns[a]
          => /\ UNCHANGED <<order, tabs, tabGroups, timers, organizeTimers>>
             /\ assigns'[a].pc \in {"getGroup", "idle"}]_vars

\* C22 witness: all tabs are processed and two tabs that were in a group of
\* the user are still in it
C22_Witness ==
  /\ AllFinished
  /\ Cardinality({t \in OpenTabs(order) :
                    /\ hist.was[t].id # TAB_GROUP_ID_NONE
                    /\ hist.was[t].title \notin RuleTitles
                    /\ tabs[t].groupId = hist.was[t].id}) >= 2

UserUngroupsTab(t) ==
  /\ budget > 0 /\ t \in OpenTabs(order) /\ tabs[t].groupId # TAB_GROUP_ID_NONE
  /\ budget' = budget - 1
  /\ LET res == HostUngroup(order, tabs, tabGroups, t)
     IN /\ order' = res.order /\ tabs' = res.tabs /\ tabGroups' = res.tabGroups
        /\ events' = events \cup res.events
                       \cup {TabEvent("tabs.onUpdated", order', tabs', t, "groupId")}
  /\ assigns' = [a \in AssignIds |->
                   IF assigns[a].pc \in {"groupExisting", "updateColor", "groupNew",
                                         "updateNew", "dedupe", "rejected"}
                   THEN [assigns[a] EXCEPT !.late = TRUE] ELSE assigns[a]]
  /\ UNCHANGED <<storage, timers, organizingWindows, organizeTimers, autoCloseTimers,
                 passes, dedupes, closers, hist>>

\* Window 1 with tabs 1 and 2, on a url the stored rule matches, in group 1
\* that has the rule's title and color, and the other tabs ungrouped on
\* another url; the host has just dispatched that tab 1 was created, or that
\* it finished loading, or runtime.onStartup.
InitStale ==
  /\ order = [w \in Windows |-> IF w = 1 THEN [i \in 1..MaxTabs |-> i] ELSE <<>>]
  /\ tabs = [t \in TabIds |->
               IF t <= 2
               THEN [pinned |-> FALSE, groupId |-> 1, url |-> MatchUrls[1]]
               ELSE [pinned |-> FALSE, groupId |-> TAB_GROUP_ID_NONE, url |-> KeepUrl]]
  /\ tabGroups = [g \in GroupIds |->
                    IF g = 1 THEN [title |-> DedupeTitle, color |-> GroupColor] ELSE NoGroup]
  /\ storage = [groupingRules |-> RuleStore, autoClosePatterns |-> <<>>]
  /\ timers = {}
  /\ organizeTimers = [w \in Windows |-> NoTimer]
  /\ autoCloseTimers = [t \in TabIds |-> NoTimer]
  /\ events \in {{TabEvent("tabs.onCreated", order, tabs, 1, "")},
                 {TabEvent("tabs.onUpdated", order, tabs, 1, "complete")},
                 {Event("runtime.onStartup", NoWindow, 0, NoGroupInfo)}}
  /\ organizingWindows = {}
  /\ passes = [p \in PassIds |-> IdlePass]
  /\ dedupes = [d \in DedupeIds |-> IdleDedupe]
  /\ assigns = [a \in AssignIds |-> IdleAssign]
  /\ closers = [c \in CloserIds |-> IdleCloser]
  /\ budget = MaxExternal
  /\ hist = NoHist

\* the listeners and the calls they start, and a user who takes a tab out of
\* its group; the debounce timer of the organizer does not expire
NextStale ==
  \/ \E e \in events : OnInstalledOrStartup(e)
  \/ \E e \in events : OnTabCreated(e)
  \/ \E e \in events : OnTabUpdated(e)
  \/ \E a \in AssignIds : AssignSweepQuery(a)
  \/ \E a \in AssignIds : AssignSweepNext(a)
  \/ \E a \in AssignIds : AssignTabsGet(a)
  \/ \E a \in AssignIds : AssignGetGroups(a)
  \/ \E a \in AssignIds : AssignQueryGroups(a)
  \/ \E a \in AssignIds : AssignGroupExisting(a)
  \/ \E a \in AssignIds : AssignAfterDedupe(a)
  \/ \E d \in DedupeIds : DedupeQueryGroups(d)
  \/ \E c \in CloserIds : CloserRules(c)
  \/ \E t \in TabIds : UserUngroupsTab(t)

SpecStale == InitStale /\ [][NextStale]_vars

\* C24: when ensureTabInGroup returns for a tab, with nobody else having
\* changed the window since its membership check, the tab is in a group that
\* has the title of the matching rule.
C24_MemberOnReturn ==
  [][\A a \in AssignIds :
        assigns[a].pc = "dedupe" /\ assigns'[a].pc # "dedupe" /\ ~assigns[a].late
          => LET t == assigns[a].tab.id
             IN /\ tabs'[t].groupId # TAB_GROUP_ID_NONE
                /\ tabGroups'[tabs'[t].groupId].title = assigns[a].match.title]_vars

\* ------------------------------------------------ one window per group
\* The user drags tab t to the end of window w: the tab leaves its group,
\* and the host dispatches tabs.onDetached for the old window and
\* tabs.onAttached for the new one.
HostAttachTab(ord, tb, tg, t, w) ==
  LET ord2 == [v \in Windows |-> IF v = w THEN Append(ord[v], t) ELSE Without(ord[v], {t})]
      tb2 == [tb EXCEPT ![t].groupId = TAB_GROUP_ID_NONE]
  IN [ok |-> TRUE, order |-> ord2, tabs |-> tb2, tabGroups |-> Collect(ord2, tb2, tg),
      events |-> {Event("tabs.onDetached", WindowOf(ord, t), t, NoGroupInfo),
                  Event("tabs.onAttached", w, t, NoGroupInfo)}]

UserAttachesTab(t, w) ==
  /\ budget > 0 /\ t \in OpenTabs(order) /\ ~tabs[t].pinned /\ WindowOf(order, t) # w
  /\ budget' = budget - 1
  /\ LET res == HostAttachTab(order, tabs, tabGroups, t, w)
     IN /\ order' = res.order /\ tabs' = res.tabs /\ tabGroups' = res.tabGroups
        /\ events' = events \cup res.events
  /\ UNCHANGED <<storage, timers, organizingWindows, organizeTimers, autoCloseTimers,
                 passes, dedupes, assigns, closers, hist>>

\* chrome.tabs.onAttached listener, part_001:533-536
OnAttached(e) ==
  /\ e \in events /\ e.type = "tabs.onAttached"
  /\ \E a \in AssignIds : assigns[a].pc = "idle"
  /\ CanSetTimeout(timers, organizeTimers, autoCloseTimers)
  /\ events' = events \ {e}
  /\ assigns' = processTabId(assigns, e.tabId)
  /\ LET r == scheduleOrganizeWindow(timers, organizeTimers, autoCloseTimers,
                                     organizingWindows, e.windowId)
     IN timers' = r.timers /\ organizeTimers' = r.organizeTimers
  /\ UNCHANGED <<order, tabs, tabGroups, storage, organizingWindows, autoCloseTimers,
                 passes, dedupes, closers, budget, hist>>

\* chrome.tabs.onDetached listener, part_001:551-553
OnDetached(e) ==
  /\ e \in events /\ e.type = "tabs.onDetached"
  /\ CanSetTimeout(timers, organizeTimers, autoCloseTimers)
  /\ events' = events \ {e}
  /\ LET r == scheduleOrganizeWindow(timers, organizeTimers, autoCloseTimers,
                                     organizingWindows, e.windowId)
     IN timers' = r.timers /\ organizeTimers' = r.organizeTimers
  /\ UNCHANGED <<order, tabs, tabGroups, storage, organizingWindows,
                 autoCloseTimers, passes, budget, hist, otherTasks>>

\* Window 1 holds tab 1, ungrouped on a url the stored rule matches, and the
\* tabs from 3 on, on another url; tab 2 is alone in window 2. Either window
\* may hold a group with the rule's title (the tab from 3 on, or tab 2). The
\* host has just dispatched that tab 1 was created or finished loading.
InitAttach ==
  /\ order = [w \in Windows |-> IF w = 1 THEN <<1>> \o [i \in 1..(MaxTabs - 2) |-> i + 2]
                                ELSE IF w = 2 THEN <<2>> ELSE <<>>]
  /\ \E here, there \in BOOLEAN :
       /\ tabs = [t \in TabIds |->
                    [pinned |-> FALSE,
                     groupId |-> IF t = 3 /\ here THEN 1
                                 ELSE IF t = 2 /\ there THEN 2 ELSE TAB_GROUP_ID_NONE,
                     url |-> IF t = 1 THEN MatchUrls[1] ELSE KeepUrl]]
       /\ tabGroups = [g \in GroupIds |->
                         IF (g = 1 /\ here) \/ (g = 2 /\ there)
                         THEN [title |-> DedupeTitle, color |-> GroupColor] ELSE NoGroup]
  /\ storage = [groupingRules |-> RuleStore, autoClosePatterns |-> <<>>]
  /\ timers = {}
  /\ organizeTimers = [w \in Windows |-> NoTimer]
  /\ autoCloseTimers = [t \in TabIds |-> NoTimer]
  /\ events \in {{TabEvent("tabs.onCreated", order, tabs, 1, "")},
                 {TabEvent("tabs.onUpdated", order, tabs, 1, "complete")}}
  /\ organizingWindows = {}
  /\ passes = [p \in PassIds |-> IdlePass]
  /\ dedupes = [d \in DedupeIds |-> IdleDedupe]
  /\ assigns = [a \in AssignIds |-> IdleAssign]
  /\ closers = [c \in CloserIds |-> IdleCloser]
  /\ budget = MaxExternal
  /\ hist = NoHist

\* the listeners and the calls they start, and a user who drags a tab to
\* the other window; the debounce timers of the organizer do not expire
NextAttach ==
  \/ \E e \in events : OnTabCreated(e)
  \/ \E e \in events : OnTabUpdated(e)
  \/ \E e \in events : OnAttached(e)
  \/ \E e \in events : OnDetached(e)
  \/ \E e \in events : OnMoved(e)
  \/ \E a \in AssignIds : AssignTabsGet(a)
  \/ \E a \in AssignIds : AssignGetGroups(a)
  \/ \E a \in AssignIds : AssignQueryGroups(a)
  \/ \E a \in AssignIds : AssignGroupExisting(a)
  \/ \E a \in AssignIds : AssignGroupNew(a)
  \/ \E a \in AssignIds : AssignUpdateNew(a)
  \/ \E a \in AssignIds : AssignAfterDedupe(a)
  \/ \E d \in DedupeIds : DedupeQueryGroups(d)
  \/ \E c \in CloserIds : CloserRules(c)
  \/ \E t \in TabIds, w \in Windows : UserAttachesTab(t, w)

SpecAttach == InitAttach /\ [][NextAttach]_vars

\* C25: a group request of ensureTabInGroup leaves every tab in the window
\* it is in when the request is made.
C25_GroupedWhereItIs ==
  [][\A a \in AssignIds :
        assigns[a].pc \in {"groupExisting", "groupNew"} /\ assigns'[a].pc # assigns[a].pc
          => \A t \in OpenTabs(order) : WindowOf(order', t) = WindowOf(order, t)]_vars

\* ------------------------------------------------- the auto-close delay
\* A second passes: the pending timers and the invocations under way are a
\* second older (the model stops counting at MaxSeconds).
Older(n) == IF n < MaxSeconds THEN n + 1 ELSE n

Tick ==
  /\ \/ \E x \in timers : x.elapsed < MaxSeconds \/ x.sinceCall < MaxSeconds
     \/ \E c \in CloserIds : closers[c].pc # "idle" /\ closers[c].waited < MaxSeconds
  /\ timers' = {[x EXCEPT !.elapsed = Older(@), !.sinceCall = Older(@)] : x \in timers}
  /\ closers' = [c \in CloserIds |->
                   IF closers[c].pc # "idle" THEN [closers[c] EXCEPT !.waited = Older(@)]
                   ELSE closers[c]]
  /\ UNCHANGED <<order, tabs, tabGroups, storage, events, organizingWindows,
                 organizeTimers, autoCloseTimers, passes, dedupes, assigns, budget, hist>>

\* part_001:245 and 262: the callback of setTimeout runs once the delay has
\* passed
AutoCloseTimerExpires(x, c) ==
  /\ x \in timers /\ x.elapsed * 1000 >= x.delay
  /\ AutoCloseTimerFires(x, c)

\* Window 1 with tab 1 on the url the stored auto-close rule matches, with a
\* delay of two seconds, and the other tabs on another url; the host has
\* just dispatched that tab 1 finished loading.
InitTimed ==
  /\ order = [w \in Windows |-> IF w = 1 THEN [i \in 1..(MaxTabs - 1) |-> i] ELSE <<>>]
  /\ tabs = [t \in TabIds |->
               IF t < MaxTabs
               THEN [pinned |-> FALSE, groupId |-> TAB_GROUP_ID_NONE,
                     url |-> IF t = 1 THEN CloseUrl ELSE KeepUrl]
               ELSE ClosedTab]
  /\ tabGroups = [g \in GroupIds |-> NoGroup]
  /\ storage = [groupingRules |-> <<>>,
                autoClosePatterns |->
                  <<[kind |-> "object", pattern |-> <<"c">>, delaySeconds |-> Num(20),
                     delay |-> Undefined]>>]
  /\ timers = {}
  /\ organizeTimers = [w \in Windows |-> NoTimer]
  /\ autoCloseTimers = [t \in TabIds |-> NoTimer]
  /\ events = {TabEvent("tabs.onUpdated", order, tabs, 1, "complete")}
  /\ organizingWindows = {}
  /\ passes = [p \in PassIds |-> IdlePass]
  /\ dedupes = [d \in DedupeIds |-> IdleDedupe]
  /\ assigns = [a \in AssignIds |-> IdleAssign]
  /\ closers = [c \in CloserIds |-> IdleCloser]
  /\ budget = MaxExternal
  /\ hist = NoHist

\* the tab listeners, the calls they start, the auto-close timers, the
\* passing of time and a user who reloads tabs; the debounce timer of the
\* organizer does not expire
NextTimed ==
  \/ \E e \in events : OnTabUpdated(e)
  \/ \E e \in events : OnTabRemoved(e)
  \/ \E a \in AssignIds : AssignTabsGet(a)
  \/ \E a \in AssignIds : AssignGetGroups(a)
  \/ \E c \in CloserIds : CloserRules(c)
  \/ \E x \in timers, c \in CloserIds : AutoCloseTimerExpires(x, c)
  \/ \E c \in CloserIds : CloserGet(c)
  \/ \E c \in CloserIds : CloserLatest(c)
  \/ \E c \in CloserIds : CloserRemove(c)
  \/ \E t \in TabIds : UserReloadsTab(t)
  \/ Tick

SpecTimed == InitTimed /\ [][NextTimed]_vars

\* C26: when an auto-close callback removes a tab, no timer is pending for
\* the tab that was set by a maybeScheduleAutoClose call begun less than the
\* timer's delay ago.
C26_NotBeforeTheDelay ==
  [][\A c \in CloserIds :
        /\ closers[c].pc = "remove" /\ closers'[c].pc = "idle"
        /\ closers[c].tab.id \in OpenTabs(order) \ OpenTabs(order')
        => \A x \in timers :
              x.kind = "autoClose" /\ x.key = closers[c].tab.id
                => x.sinceCall * 1000 >= x.delay]_vars

\* ------------------------------------------- the delay of the first rule
\* the stored auto-close entries: legacy strings, records whose delaySeconds
\* is missing, null, a number below, inside or above 1..10, whole or not, or
\* a string, with or without the older property delay, and an entry that is
\* neither
DelayEntries ==
  {[kind |-> "string", pattern |-> q, delaySeconds |-> Undefined, delay |-> Undefined] :
     q \in {<<"c">>, <<" ", "c", " ">>, <<"k">>, <<" ">>}}
  \cup {[kind |-> "object", pattern |-> q, delaySeconds |-> v, delay |-> o] :
          q \in {<<"c">>, <<"k">>},
          v \in {Undefined, JsNull, Num(-20), Num(0), Num(9), Num(15), Num(37), Num(100),
                 Num(109), Num(250), Str(<<"7">>), Str(<<"4", "2">>), Str(<<"x">>),
                 Str(<<>>)},
          o \in {Undefined, Num(40)}}
  \cup {[kind |-> "other", pattern |-> <<>>, delaySeconds |-> Undefined, delay |-> Undefined]}

\* the stored lists of up to MaxRules entries
DelayLists == UNION {[1..n -> DelayEntries] : n \in 0..MaxRules}

\* Window 1 with the single tab 1 on https://c/, one of DelayLists stored,
\* and maybeScheduleAutoClose called for the tab (part_001:228-236).
InitDelay ==
  /\ order = [w \in Windows |-> IF w = 1 THEN <<1>> ELSE <<>>]
  /\ tabs = [t \in TabIds |->
               IF t = 1 THEN [pinned |-> FALSE, groupId |-> TAB_GROUP_ID_NONE, url |-> CloseUrl]
               ELSE ClosedTab]
  /\ tabGroups = [g \in GroupIds |-> NoGroup]
  /\ \E st \in DelayLists : storage = [groupingRules |-> <<>>, autoClosePatterns |-> st]
  /\ timers = {}
  /\ organizeTimers = [w \in Windows |-> NoTimer]
  /\ autoCloseTimers = [t \in TabIds |-> NoTimer]
  /\ events = {}
  /\ organizingWindows = {}
  /\ passes = [p \in PassIds |-> IdlePass]
  /\ dedupes = [d \in DedupeIds |-> IdleDedupe]
  /\ assigns = [a \in AssignIds |-> IdleAssign]
  /\ closers = maybeScheduleAutoClose([c \in CloserIds |-> IdleCloser],
                                      TabInfo(order, tabs, 1))
  /\ budget = 0
  /\ hist = NoHist

NextDelay == \E c \in CloserIds : CloserRules(c)

SpecDelay == InitDelay /\ [][NextDelay]_vars

\* the stored entries that are rules whose pattern matches the url
MatchingEntries(st, url) ==
  {i \in 1..Len(st) :
     /\ st[i].kind \in {"string", "object"}
     /\ patternMatchesUrl(trim(st[i].pattern), getHostFromUrl(url), getPathFromUrl(url))}

\* d is the delay in seconds entry it stands for: 1 for a bare string and
\* for a value that is no number, else the number floored and clamped
StandsFor(it, d) ==
  LET v == Number(Coalesce(it.delaySeconds, it.delay))
  IN /\ d \in 1..10
     /\ it.kind = "string" \/ ~v.finite => d = 1
     /\ it.kind = "object" /\ v.finite =>
          \/ v.tenths < 10 /\ d = 1
          \/ v.tenths >= 100 /\ d = 10
          \/ 10 * d <= v.tenths /\ v.tenths < 10 * d + 10

RuleEntries ==
  {[title |-> ti, color |-> co, patterns |-> ps] :
     ti \in {<<DedupeTitle>>, <<" ", OtherTitle>>, <<>>}, co \in {GroupColor, "bogus"},
     ps \in {<< <<"c">> >>, <<>>}}
  \cup {[pattern |-> q, title |-> ti, color |-> co] :
          q \in {<<"c">>, <<"k">>}, ti \in {<<>>, <<DedupeTitle>>, <<" ", DedupeTitle>>},
          co \in {"bogus", "red", GroupColor}}
  \cup {[title |-> <<DedupeTitle>>, color |-> GroupColor], NullEntry}

\* the stored arrays of up to MaxRules + 1 entries
RuleLists == UNION {[1..n -> RuleEntries] : n \in 0..(MaxRules + 1)}

\* Window 1 with the single tab 1 on https://c/, one of RuleLists stored, and
\* processTab called for the tab (part_001:443-453).
InitRules ==
  /\ order = [w \in Windows |-> IF w = 1 THEN <<1>> ELSE <<>>]
  /\ tabs = [t \in TabIds |->
               IF t = 1 THEN [pinned |-> FALSE, groupId |-> TAB_GROUP_ID_NONE, url |-> CloseUrl]
               ELSE ClosedTab]
  /\ tabGroups = [g \in GroupIds |-> NoGroup]
  /\ \E rl \in RuleLists : storage = [groupingRules |-> rl, autoClosePatterns |-> <<>>]
  /\ timers = {}
  /\ organizeTimers = [w \in Windows |-> NoTimer]
  /\ autoCloseTimers = [t \in TabIds |-> NoTimer]
  /\ events = {}
  /\ organizingWindows = {}
  /\ passes = [p \in PassIds |-> IdlePass]
  /\ dedupes = [d \in DedupeIds |-> IdleDedupe]
  /\ assigns = processTab([a \in AssignIds |-> IdleAssign], TabInfo(order, tabs, 1))
  /\ closers = [c \in CloserIds |-> IdleCloser]
  /\ budget = 0
  /\ hist = NoHist

NextRules ==
  \/ \E a \in AssignIds : AssignGetGroups(a)
  \/ \E a \in AssignIds : AssignRejected(a)

SpecRules == InitRules /\ [][NextRules]_vars

\* the title a legacy record stands for: its trimmed title, else its pattern
TitleOf(r) == Text(IF trim(r.title) # <<>> THEN trim(r.title) ELSE r.pattern)

\* the first record of the array with the title / with the title and pattern
FirstWith(data, title) == Min({j \in 1..Len(data) : TitleOf(data[j]) = title})
FirstOf(data, title, q) ==
  Min({j \in 1..Len(data) : TitleOf(data[j]) = title /\ data[j].pattern = q})

\* C28: getGroups on an array of legacy records returns one group per title,
\* the titles and the patterns of a title in the order they are first seen
\* and without duplicates, colored grey unless a record of the title has
\* another allowed color, and the array stored afterwards is that list.
C28_LegacyMergedByTitle ==
  LET data == hist.read
      gs == hist.groups
  IN data # <<>> /\ (\A j \in 1..Len(data) : ~IsNull(data[j]) /\ HasPattern(data[j]))
     => /\ {gs[i].title : i \in 1..Len(gs)} = {TitleOf(data[j]) : j \in 1..Len(data)}
        /\ \A i, k \in 1..Len(gs) :
              i < k => FirstWith(data, gs[i].title) < FirstWith(data, gs[k].title)
        /\ \A i \in 1..Len(gs) :
              LET mine == {j \in 1..Len(data) : TitleOf(data[j]) = gs[i].title}
                  colors == {normalizeColor(data[j].color) : j \in mine} \ {"grey"}
                  ps == gs[i].patterns
              IN /\ Range(ps) = {data[j].pattern : j \in mine}
                 /\ \A x, y \in 1..Len(ps) :
                       x < y => FirstOf(data, gs[i].title, ps[x])
                                  < FirstOf(data, gs[i].title, ps[y])
                 /\ IF colors = {} THEN gs[i].color = "grey" ELSE gs[i].color \in colors
        /\ getGroups(storage.groupingRules) = gs
        /\ Len(storage.groupingRules) = Len(gs)
        /\ \A i \in 1..Len(gs) : HasPatterns(storage.groupingRules[i])

\* three legacy records, the first and the last of the same title with
\* different patterns, one of them colored: two groups are returned
C28_Witness ==
  /\ Len(hist.read) = 3
  /\ \A j \in 1..3 : ~IsNull(hist.read[j]) /\ HasPattern(hist.read[j])
  /\ TitleOf(hist.read[1]) = TitleOf(hist.read[3])
  /\ TitleOf(hist.read[1]) # TitleOf(hist.read[2])
  /\ hist.read[1].pattern # hist.read[3].pattern
  /\ normalizeColor(hist.read[1].color) = "grey"
  /\ normalizeColor(hist.read[3].color) # "grey"
  /\ Len(hist.groups) = 2
  /\ Len(hist.groups[1].patterns) = 2

\* a group of the new schema with a title and a pattern
WellFormed(e) ==
  /\ ~IsNull(e) /\ HasPatterns(e)
  /\ trim(e.title) # <<>>
  /\ \E i \in 1..Len(e.patterns) : e.patterns[i] # <<>>

\* C29: a getGroups call returns and its result holds every well-formed
\* group of the array it read, whatever the other entries are.
C29_WellFormedReturned ==
  /\ \A a \in AssignIds : assigns[a].pc # "rejected"
  /\ \A j \in 1..Len(hist.read) :
        WellFormed(hist.read[j])
          => \E i \in 1..Len(hist.groups) :
                /\ hist.groups[i].title = Text(trim(hist.read[j].title))
                /\ hist.groups[i].color = normalizeColor(hist.read[j].color)
                /\ hist.groups[i].patterns
                     = SelectSeq(hist.read[j].patterns, LAMBDA q : q # <<>>)

\* ------------------------------------------------ the re-sweep on new rules
\* the rule arrays the user can store in place of RuleStore: the rule with
\* another title, the rule for another host, and a second rule added
NewRuleStores ==
  { <<[title |-> <<OtherTitle>>, color |-> GroupColor, patterns |-> << <<"c">> >>]>>,
    <<[title |-> <<DedupeTitle>>, color |-> GroupColor, patterns |-> << <<"k">> >>]>>,
    RuleStore \o <<[title |-> <<OtherTitle>>, color |-> GroupColor,
                    patterns |-> << <<"k">> >>]>> }

\* The user saves the rules rl on the options page (not an action of the
\* worker): the host dispatches storage.onChanged for groupingRules.
UserSetsGroupingRules(rl) ==
  /\ budget > 0 /\ storage.groupingRules # rl
  /\ budget' = budget - 1
  /\ storage' = [storage EXCEPT !.groupingRules = rl]
  /\ events' = events \cup {[Event("storage.onChanged", NoWindow, 0, NoGroupInfo)
                               EXCEPT !.change = "groupingRules"]}
  /\ UNCHANGED <<order, tabs, tabGroups, timers, organizingWindows, organizeTimers,
                 autoCloseTimers, passes, hist, otherTasks>>

\* Window 1 with tab 1 on the url the stored rule matches, in group 1 that
\* has the rule's title, and the tabs from 3 on, ungrouped on another url;
\* window 2 with tab 2, ungrouped on that other url.  Nothing is pending, or
\* the host has just dispatched that tab 1 finished loading.
InitResweep ==
  /\ order = [w \in Windows |-> IF w = 1 THEN <<1>> \o [i \in 1..(MaxTabs - 2) |-> i + 2]
                                ELSE IF w = 2 THEN <<2>> ELSE <<>>]
  /\ tabs = [t \in TabIds |->
               IF t = 1 THEN [pinned |-> FALSE, groupId |-> 1, url |-> MatchUrls[1]]
               ELSE [pinned |-> FALSE, groupId |-> TAB_GROUP_ID_NONE, url |-> KeepUrl]]
  /\ tabGroups = [g \in GroupIds |->
                    IF g = 1 THEN [title |-> DedupeTitle, color |-> GroupColor] ELSE NoGroup]
  /\ storage = [groupingRules |-> RuleStore, autoClosePatterns |-> <<>>]
  /\ timers = {}
  /\ organizeTimers = [w \in Windows |-> NoTimer]
  /\ autoCloseTimers = [t \in TabIds |-> NoTimer]
  /\ events \in {{}, {TabEvent("tabs.onUpdated", order, tabs, 1, "complete")}}
  /\ organizingWindows = {}
  /\ passes = [p \in PassIds |-> IdlePass]
  /\ dedupes = [d \in DedupeIds |-> IdleDedupe]
  /\ assigns = [a \in AssignIds |-> IdleAssign]
  /\ closers = [c \in CloserIds |-> IdleCloser]
  /\ budget = MaxExternal
  /\ hist = NoHist

\* the listeners and the calls they start, and a user who saves new rules;
\* the debounce timers of the organizer do not expire
NextResweep ==
  \/ \E e \in events : OnStorageChanged(e)
  \/ \E e \in events : OnTabUpdated(e)
  \/ \E e \in events : OnGroupCreated(e)
  \/ \E e \in events, d \in DedupeIds : OnGroupUpdated(e, d)
  \/ \E a \in AssignIds : AssignSweepQuery(a)
  \/ \E a \in AssignIds : AssignSweepNext(a)
  \/ \E a \in AssignIds : AssignTabsGet(a)
  \/ \E a \in AssignIds : AssignGetGroups(a)
  \/ \E a \in AssignIds : AssignQueryGroups(a)
  \/ \E a \in AssignIds : AssignGroupExisting(a)
  \/ \E a \in AssignIds : AssignGroupNew(a)
  \/ \E a \in AssignIds : AssignUpdateNew(a)
  \/ \E a \in AssignIds : AssignAfterDedupe(a)
  \/ \E a \in AssignIds : AssignGetGroup(a)
  \/ \E a \in AssignIds : AssignUngroup(a)
  \/ \E a \in AssignIds : AssignRejected(a)
  \/ \E d \in DedupeIds : DedupeQueryGroups(d)
  \/ \E d \in DedupeIds : DedupeQueryTabs(d)
  \/ \E d \in DedupeIds : DedupeGroup(d)
  \/ \E d \in DedupeIds : DedupeUpdate(d)
  \/ \E d \in DedupeIds : DedupeReturn(d)
  \/ \E c \in CloserIds : CloserRules(c)
  \/ \E rl \in NewRuleStores : UserSetsGroupingRules(rl)

SpecResweep == InitResweep /\ [][NextResweep]_vars

\* the rule of the stored set for the tab: the group findMatchingGroup gives
RuleFor(st, tb, t) ==
  findMatchingGroup(getHostFromUrl(tb[t].url), getPathFromUrl(tb[t].url),
                    getGroups(st.groupingRules))

\* C30: when the sweep that the change of the rules started returns, every
\* unpinned tab with an http(s) url that a stored rule matches is in a group
\* that has the title of the rule, and a pass is scheduled for every window
\* that has tabs.
C30_ResweepGroupsEveryTab ==
  [][\A a \in AssignIds :
        assigns[a].pc = "next" /\ assigns[a].origin = "sweep" /\ assigns'[a].pc = "idle"
          => /\ \A t \in OpenTabs(order') :
                   /\ ~tabs'[t].pinned
                   /\ getHostFromUrl(tabs'[t].url) \notin {Null, <<>>}
                   /\ RuleFor(storage', tabs', t) # NoMatch
                   => /\ tabs'[t].groupId # TAB_GROUP_ID_NONE
                      /\ tabGroups'[tabs'[t].groupId].title
                           = RuleFor(storage', tabs', t).title
             /\ \A w \in Windows : order'[w] # <<>> => organizeTimers'[w] # NoTimer]_vars

\* --------------------------------------------------- patterns and urls
\* the host parts of a pattern: exact, in capitals, the subdomain wildcard
\* of a base, of a longer base and of the empty base
UrlHostPatterns ==
  { <<"c">>, <<"C">>, <<"s", ".", "c">>, <<"*", ".", "c">>, <<"*", ".", "C">>,
    <<"*", ".", "s", ".", "c">>, <<"*", ".">> }

\* the path parts of a pattern: none, exact ones and globs
UrlPathPatterns == { <<>>, <<"/">>, <<"/", "x">>, <<"/", "x", "/", "*">>, <<"/", "*">> }

\* the hosts of a url: the base, subdomains of one and two labels, a host
\* that only ends with the letters of the base, and hosts with empty labels
UrlHosts ==
  { <<"c">>, <<"s", ".", "c">>, <<"a", ".", "s", ".", "c">>, <<"k", "c">>,
    <<".", "c">>, <<".", ".", "c">>, <<"s", ".">> }

UrlPaths ==
  { <<>>, <<"/">>, <<"/", "x">>, <<"/", "x", "/">>, <<"/", "x", "/", "y">>, <<"/", "x", "y">> }

\* Window 1 with the single tab 1 on an https url of UrlHosts and UrlPaths,
\* one rule with one pattern stored, and processTab called for the tab
\* (part_001:443-453).
InitUrl ==
  /\ order = [w \in Windows |-> IF w = 1 THEN <<1>> ELSE <<>>]
  /\ \E h \in UrlHosts, q \in UrlPaths :
       tabs = [t \in TabIds |->
                 IF t = 1 THEN [pinned |-> FALSE, groupId |-> TAB_GROUP_ID_NONE,
                                url |-> Url("https:", h, q)]
                 ELSE ClosedTab]
  /\ tabGroups = [g \in GroupIds |-> NoGroup]
  /\ \E hp \in UrlHostPatterns, pp \in UrlPathPatterns :
       storage = [groupingRules |-> <<[title |-> <<DedupeTitle>>, color |-> GroupColor,
                                        patterns |-> <<hp \o pp>>]>>,
                  autoClosePatterns |-> <<>>]
  /\ timers = {}
  /\ organizeTimers = [w \in Windows |-> NoTimer]
  /\ autoCloseTimers = [t \in TabIds |-> NoTimer]
  /\ events = {}
  /\ organizingWindows = {}
  /\ passes = [p \in PassIds |-> IdlePass]
  /\ dedupes = [d \in DedupeIds |-> IdleDedupe]
  /\ assigns = processTab([a \in AssignIds |-> IdleAssign], TabInfo(order, tabs, 1))
  /\ closers = [c \in CloserIds |-> IdleCloser]
  /\ budget = 0
  /\ hist = NoHist

SpecUrl == InitUrl /\ [][NextMatch]_vars

\* the stored pattern, its host part and its path part (Null without one)
ThePattern == storage.groupingRules[1].patterns[1]
HostPart(q) == IF IndexOf(q, "/") >= 0 THEN SubSeq(q, 1, IndexOf(q, "/")) ELSE q
PathPart(q) == IF IndexOf(q, "/") >= 0 THEN SubSeq(q, IndexOf(q, "/") + 1, Len(q)) ELSE Null

\* the host ends with '.' and the base and has a label that is not empty
\* before it; a pattern that is no wildcard is the host, whatever the case
HostAsDocumented(q, h) ==
  LET lq == toLowerCase(q)
      lh == toLowerCase(h)
      b == SubSeq(lq, 3, Len(lq))
  IN IF startsWith(lq, <<"*", ".">>)
     THEN /\ endsWith(lh, <<".">> \o b)
          /\ \E i \in 1..(Len(lh) - Len(b) - 1) : lh[i] # "."
          /\ lh # b
     ELSE lh = lq

\* C31: a pattern without path matches the host of the url exactly when the
\* host is a subdomain of the base of a wildcard pattern, with a label that
\* is not empty before the base, or is the pattern, ignoring case.
C31_HostMatchesAsDocumented ==
  \A a \in AssignIds :
     assigns[a].pc = "matched" /\ PathPart(ThePattern) = Null
       => (assigns[a].match # NoMatch
             <=> HostAsDocumented(ThePattern, assigns[a].tab.url.hostname))

RegexClass == {".", "*", "+", "?", "^", "$", "{", "}", "(", ")", "|", "[", "\\"}

RECURSIVE testEscapeRegex(_)
testEscapeRegex(s) ==
  IF s = <<>> THEN <<>>
  ELSE IF Len(s) >= 4 /\ s[1] \in RegexClass /\ SubSeq(s, 2, 4) = <<"\\", "\\", "]">>
       THEN <<"\\", "\\">> \o SubSeq(s, 1, 4) \o testEscapeRegex(SubSeq(s, 5, Len(s)))
       ELSE <<s[1]>> \o testEscapeRegex(Tail(s))

\* test_match.js:8: every backslash followed by '*' becomes '.*'
RECURSIVE ReplaceEscapedStar(_)
ReplaceEscapedStar(s) ==
  IF s = <<>> THEN <<>>
  ELSE IF Len(s) >= 2 /\ s[1] = "\\" /\ s[2] = "*"
       THEN <<".", "*">> \o ReplaceEscapedStar(SubSeq(s, 3, Len(s)))
       ELSE <<s[1]>> \o ReplaceEscapedStar(Tail(s))

\* RegExp.prototype.test for an expression made of characters, '.', escaped
\* characters and '*' after one of these, anchored at both ends
AtomLen(rx) == IF rx[1] = "\\" /\ Len(rx) >= 2 THEN 2 ELSE 1
AtomTakes(rx, c) == IF AtomLen(rx) = 2 THEN c = rx[2] ELSE rx[1] = "." \/ c = rx[1]

RECURSIVE RegExpTest(_, _)
RegExpTest(rx, s) ==
  IF rx = <<>> THEN s = <<>>
  ELSE LET n == AtomLen(rx)
       IN IF Len(rx) > n /\ rx[n + 1] = "*"
          THEN \E k \in 0..Len(s) :
                  /\ \A i \in 1..k : AtomTakes(rx, s[i])
                  /\ RegExpTest(SubSeq(rx, n + 2, Len(rx)), SubSeq(s, k + 1, Len(s)))
          ELSE s # <<>> /\ AtomTakes(rx, s[1])
               /\ RegExpTest(SubSeq(rx, n + 1, Len(rx)), Tail(s))

\* globToRegExp of test_match.js:7-10, tested against path
testGlobToRegExp(glob, path) == RegExpTest(ReplaceEscapedStar(testEscapeRegex(glob)), path)

\* patternMatchesUrl of test_match.js:23-41
testPatternMatchesUrl(pattern, host, pathname) ==
  IF pattern = <<>> \/ host = <<>> THEN FALSE
  ELSE LET slashIdx == IndexOf(pattern, "/")
           hostPattern == IF slashIdx >= 0 THEN SubSeq(pattern, 1, slashIdx) ELSE pattern
           pathPattern == IF slashIdx >= 0 THEN SubSeq(pattern, slashIdx + 1, Len(pattern))
                          ELSE Null
           implicit == IF "*" \notin Range(pathPattern) THEN pathPattern \o <<"*">>
                       ELSE pathPattern
           path == IF pathname = <<>> THEN <<"/">> ELSE pathname
       IN IF ~patternMatchesHost(hostPattern, host) THEN FALSE
          ELSE IF pathPattern = Null THEN TRUE
          ELSE IF "*" \in Range(implicit) THEN testGlobToRegExp(implicit, path)
          ELSE path = implicit

\* the patterns of the test cases: a host with a path part that has a '*'
\* at its end, in its middle or none
TestPatterns ==
  { <<"c", "/", "x">>, <<"c", "/", "x", "*">>, <<"c", "/", "x", "/", "*">>,
    <<"c", "/", "x", "/", "y">>, <<"c", "/">>, <<"c">>, <<"*", ".", "c", "/", "x">> }

TestHosts == { <<"c">>, <<"s", ".", "c">>, <<"k">> }

TestPaths ==
  { <<>>, <<"/">>, <<"/", "x">>, <<"/", "x", "/">>, <<"/", "x", "/", "y">>,
    <<"/", "x", "x">>, <<"/", "x", "y">>, <<"/", "y">> }

\* test_match.js:44-48: a test case is drawn, its url in tab 1 and its
\* pattern in the stored rule; the script has not run
InitTest ==
  /\ order = [w \in Windows |-> IF w = 1 THEN <<1>> ELSE <<>>]
  /\ \E h \in TestHosts, q \in TestPaths :
       tabs = [t \in TabIds |->
                 IF t = 1 THEN [pinned |-> FALSE, groupId |-> TAB_GROUP_ID_NONE,
                                url |-> Url("https:", h, q)]
                 ELSE ClosedTab]
  /\ tabGroups = [g \in GroupIds |-> NoGroup]
  /\ \E q \in TestPatterns :
       storage = [groupingRules |-> <<[title |-> <<DedupeTitle>>, color |-> GroupColor,
                                        patterns |-> <<q>>]>>,
                  autoClosePatterns |-> <<>>]
  /\ timers = {}
  /\ organizeTimers = [w \in Windows |-> NoTimer]
  /\ autoCloseTimers = [t \in TabIds |-> NoTimer]
  /\ events = {}
  /\ organizingWindows = {}
  /\ passes = [p \in PassIds |-> IdlePass]
  /\ dedupes = [d \in DedupeIds |-> IdleDedupe]
  /\ assigns = [a \in AssignIds |-> IdleAssign]
  /\ closers = [c \in CloserIds |-> IdleCloser]
  /\ budget = 0
  /\ hist = NoHist

\* test_match.js:51-52: the script applies patternMatchesUrl to the test case
RunTest ==
  /\ hist.result = ""
  /\ hist' = [hist EXCEPT !.result =
                IF testPatternMatchesUrl(ThePattern, tabs[1].url.hostname,
                                         tabs[1].url.pathname)
                THEN "true" ELSE "false"]
  /\ UNCHANGED <<order, tabs, tabGroups, storage, timers, events, organizingWindows,
                 organizeTimers, autoCloseTimers, passes, dedupes, assigns, closers, budget>>

NextTest == RunTest

SpecTest == InitTest /\ [][NextTest]_vars

\* C33: for a pattern whose path part has no '*', the script's
\* patternMatchesUrl is true exactly for the urls of a matching host whose
\* path begins with the path part, as it is for the pattern with '*' added.
C33_PathIsPrefix ==
  /\ hist.result # ""
  /\ PathPart(ThePattern) # Null /\ "*" \notin Range(PathPart(ThePattern))
  => LET path == IF tabs[1].url.pathname = <<>> THEN <<"/">> ELSE tabs[1].url.pathname
     IN /\ hist.result = "true"
             <=> /\ patternMatchesHost(HostPart(ThePattern), tabs[1].url.hostname)
                 /\ startsWith(path, PathPart(ThePattern))
        /\ hist.result = "true"
             <=> testPatternMatchesUrl(ThePattern \o <<"*">>, tabs[1].url.hostname,
                                       tabs[1].url.pathname)

\* ------------------------------------------------ the migration write-back
\* the patterns of the stored groups
PersistedPatterns ==
  UNION {Range(storage.groupingRules[i].patterns) :
           i \in {k \in 1..Len(storage.groupingRules) :
                    ~IsNull(storage.groupingRules[k])
                    /\ HasPatterns(storage.groupingRules[k])}}

\* the patterns of a well-formed entry: the pattern of a legacy record, the
\* non-empty patterns of a new-schema group with a title
PatternsOf(e) ==
  IF IsNull(e) THEN {}
  ELSE IF HasPattern(e) THEN {e.pattern}
  ELSE IF WellFormed(e) THEN {q \in Range(e.patterns) : q # <<>>}
  ELSE {}

\* C34: once getGroups has written the migrated groups back, every pattern
\* of every well-formed entry of the array it read, legacy record or
\* new-schema group, is a pattern of a stored group.
C34_WriteBackKeepsPatterns ==
  hist.read # <<>> /\ ~NewSchema(hist.read)
  => \A j \in 1..Len(hist.read) : PatternsOf(hist.read[j]) \subseteq PersistedPatterns

\* ------------------------------------------------ the flag of a pass ends
\* the organizer with a user who closes the window, every host call of a
\* pass answering and the pass running on when it has
PassStep(p) ==
  PassQuery(p) \/ PassMoveGroup(p) \/ PassQueryGroup(p) \/ PassMoveTab(p) \/ PassFinally(p)

SpecFlag == SpecWindowClose /\ \A p \in PassIds : WF_vars(PassStep(p))

\* C35: a window is flagged exactly while a pass of it runs, and every
\* flagged window is unflagged later, whether the host calls of its pass
\* succeed or fail.
C35_FlagIsCleared ==
  /\ [](\A w \in Windows : w \in organizingWindows <=> Running(passes, w) # {})
  /\ \A w \in Windows : (w \in organizingWindows) ~> (w \notin organizingWindows)

\* a pass whose group move failed is at its end, its window still flagged
C35_Witness ==
  \E p \in PassIds :
     /\ passes[p].pc = "finally" /\ passes[p].aborted
     /\ passes[p].windowId \in organizingWindows

\* ------------------------------------- the earlier organizer (part_000)
\* An organizeGroupsInWindow invocation, part_000:467-544.  pc is the await
\* it is suspended on: readAll (474-478), ungroup (500), the awaits of the
\* ensureTabInGroup it calls with skipOrganize (ensureQuery 561, ensureGroup
\* 564, ensureNew 575, ensureUpdate 576, ensureDedupe 566 and 578), requery
\* (513) and moveTab (535).  allTabs0 is what is left of the first query,
\* groupTitleById, ruleGroups, orderedUngroupedTabIds and targetIndex are its
\* locals; match, existing and groupId those of ensureTabInGroup, dedupe the
\* dedupeGroups invocation it awaits.
GroupsPass(w) ==
  [pc |-> "readAll", windowId |-> w, orderedGroups |-> <<>>, allTabs0 |-> <<>>,
   groupTitleById |-> [g \in GroupIds |-> Absent], ruleGroups |-> <<>>,
   match |-> NoMatch, existing |-> TAB_GROUP_ID_NONE, groupId |-> TAB_GROUP_ID_NONE,
   dedupe |-> 0, orderedUngroupedTabIds |-> <<>>, targetIndex |-> 0]

\* part_000:468-471 and 541-543: the call organizeGroupsInWindow(w) as
\* invocation p up to its first await.  The two early returns are inside the
\* try block, so the finally block runs after them.
organizeGroupsInWindow(ow, ps, p, w) ==
  IF w = NoWindow \/ w \in ow
  THEN [organizingWindows |-> ow \ {w}, passes |-> ps]
  ELSE [organizingWindows |-> ow \cup {w}, passes |-> [ps EXCEPT ![p] = GroupsPass(w)]]

\* part_000:487-510: the loop runs on to the next tab of the first query
\* that is unpinned, grouped and matches no rule (it is ungrouped) or a rule
\* of another title than its group's (ensureTabInGroup is called), else to
\* the second query
RECURSIVE Enforce(_)
Enforce(r) ==
  IF r.allTabs0 = <<>> THEN [r EXCEPT !.pc = "requery"]
  ELSE LET t == Head(r.allTabs0)
           host == getHostFromUrl(t.url)
           match == findMatchingGroup(host, getPathFromUrl(t.url), r.ruleGroups)
       IN IF t.pinned \/ t.groupId = TAB_GROUP_ID_NONE
          THEN Enforce([r EXCEPT !.allTabs0 = Tail(@)])
          ELSE IF match = NoMatch THEN [r EXCEPT !.pc = "ungroup"]
          ELSE IF match.title # r.groupTitleById[t.groupId]
          THEN [r EXCEPT !.pc = "ensureQuery", !.match = match]
          ELSE Enforce([r EXCEPT !.allTabs0 = Tail(@)])

\* the loop is done with the tab at the head of allTabs0
EnforceNext(r) == Enforce([r EXCEPT !.allTabs0 = Tail(@)])

\* part_000:541-543: the invocation ends, in the finally block
GroupsEnd(p) ==
  /\ organizingWindows' = organizingWindows \ {passes[p].windowId}
  /\ passes' = [passes EXCEPT ![p] = IdlePass]

\* group ids the host has not handed out
GroupsFresh ==
  FreshGroupIds \ UNION {IF passes[p].pc = "idle" THEN {}
                         ELSE {passes[p].existing, passes[p].groupId}
                              \cup {passes[p].allTabs0[i].groupId :
                                      i \in 1..Len(passes[p].allTabs0)} : p \in PassIds}

\* part_000:474-481: the three reads of Promise.all have answered
GroupsReadAll(p) ==
  /\ passes[p].pc = "readAll"
  /\ LET r == passes[p]
         w == r.windowId
         allTabs0 == [i \in 1..Len(order[w]) |-> TabInfo(order, tabs, order[w][i])]
         r2 == [r EXCEPT !.allTabs0 = allTabs0,
                         !.groupTitleById =
                            [g \in GroupIds |-> IF g \in GroupsOfWindow(order, tabs, w)
                                                THEN tabGroups[g].title ELSE Absent],
                         !.ruleGroups = getGroups(storage.groupingRules)]
     IN IF getGroupsThrows(storage.groupingRules)
        THEN GroupsEnd(p) /\ UNCHANGED <<storage, events>>
        ELSE /\ storage' = [storage EXCEPT !.groupingRules = WrittenBack(@)]
             /\ events' = IF storage' = storage THEN events
                          ELSE events \cup {[Event("storage.onChanged", NoWindow, 0,
                                                   NoGroupInfo)
                                              EXCEPT !.change = "groupingRules"]}
             /\ IF allTabs0 = <<>> THEN GroupsEnd(p)
                ELSE /\ passes' = [passes EXCEPT ![p] = Enforce(r2)]
                     /\ UNCHANGED organizingWindows
  /\ UNCHANGED <<order, tabs, tabGroups, timers, organizeTimers, autoCloseTimers,
                 dedupes, assigns, closers, budget, hist>>

\* part_000:498-501: chrome.tabs.ungroup(t.id) answers, an error swallowed
GroupsUngroup(p) ==
  /\ passes[p].pc = "ungroup"
  /\ LET res == HostUngroup(order, tabs, tabGroups, Head(passes[p].allTabs0).id)
     IN /\ order' = res.order /\ tabs' = res.tabs /\ tabGroups' = res.tabGroups
        /\ events' = events \cup res.events
  /\ passes' = [passes EXCEPT ![p] = EnforceNext(passes[p])]
  /\ UNCHANGED <<storage, timers, organizingWindows, organizeTimers, autoCloseTimers,
                 dedupes, assigns, closers, budget, hist>>

\* ensureTabInGroup, part_000:561-562: the groups of the tab's window
\* answer, and one of the wanted title is looked for
GroupsEnsureQuery(p) ==
  /\ passes[p].pc = "ensureQuery"
  /\ LET r == passes[p]
         same == SameTitle(order, tabs, tabGroups, Head(r.allTabs0).windowId, r.match.title)
     IN IF same = {}
        THEN passes' = [passes EXCEPT ![p].pc = "ensureNew"]
        ELSE \E g \in same :
               passes' = [passes EXCEPT ![p].pc = "ensureGroup", ![p].existing = g]
  /\ UNCHANGED <<order, tabs, tabGroups, storage, timers, events, organizingWindows,
                 organizeTimers, autoCloseTimers, dedupes, assigns, closers, budget, hist>>

\* part_000:566 and 578: ensureTabInGroup calls dedupeGroups and awaits it
GroupsAwaitDedupe(p, r) ==
  \E d \in DedupeIds :
     /\ dedupes[d].pc = "idle" /\ \A c \in DedupeIds : c < d => dedupes[c].pc # "idle"
     /\ dedupes' = [dedupeGroups(dedupes, d, Head(r.allTabs0).windowId, r.match.title,
                                 r.match.color)
                      EXCEPT ![d].caller = MaxAssigns + p]
     /\ passes' = [passes EXCEPT ![p] = [r EXCEPT !.pc = "ensureDedupe", !.dedupe = d]]

\* part_000:564: chrome.tabs.group into the existing group answers; an
\* error leaves ensureTabInGroup for the catch of part_000:507
GroupsEnsureGroup(p) ==
  /\ passes[p].pc = "ensureGroup"
  /\ LET r == passes[p]
         res == HostGroupTabs(order, tabs, tabGroups, <<Head(r.allTabs0).id>>, r.existing)
     IN /\ order' = res.order /\ tabs' = res.tabs /\ tabGroups' = res.tabGroups
        /\ events' = events \cup res.events
        /\ IF res.ok THEN GroupsAwaitDedupe(p, r)
           ELSE passes' = [passes EXCEPT ![p] = EnforceNext(r)] /\ UNCHANGED dedupes
  /\ UNCHANGED <<storage, timers, organizingWindows, organizeTimers, autoCloseTimers,
                 assigns, closers, budget, hist>>

\* part_000:575: chrome.tabs.group making a new group answers
GroupsEnsureNew(p) ==
  /\ passes[p].pc = "ensureNew"
  /\ \E g \in GroupsFresh :
       LET r == passes[p]
           res == HostGroupNew(order, tabs, tabGroups, Head(r.allTabs0).id, g)
       IN /\ order' = res.order /\ tabs' = res.tabs /\ tabGroups' = res.tabGroups
          /\ events' = events \cup res.events
          /\ passes' = [passes EXCEPT ![p] =
                          IF res.ok THEN [r EXCEPT !.pc = "ensureUpdate", !.groupId = g]
                          ELSE EnforceNext(r)]
  /\ UNCHANGED <<storage, timers, organizingWindows, organizeTimers, autoCloseTimers,
                 dedupes, assigns, closers, budget, hist>>

\* part_000:576: chrome.tabGroups.update(groupId, {title, color}) answers
GroupsEnsureUpdate(p) ==
  /\ passes[p].pc = "ensureUpdate"
  /\ LET r == passes[p]
         res == HostUpdateGroup(order, tabs, tabGroups, r.groupId, r.match.title,
                                r.match.color)
     IN /\ tabGroups' = res.tabGroups
        /\ events' = events \cup res.events
        /\ IF res.ok THEN GroupsAwaitDedupe(p, r)
           ELSE passes' = [passes EXCEPT ![p] = EnforceNext(r)] /\ UNCHANGED dedupes
  /\ UNCHANGED <<order, tabs, storage, timers, organizingWindows, organizeTimers,
                 autoCloseTimers, assigns, closers, budget, hist>>

\* part_000:566-571 and 578-583: dedupeGroups has returned; with
\* skipOrganize ensureTabInGroup returns and the loop goes on
GroupsAfterDedupe(p) ==
  /\ passes[p].pc = "ensureDedupe" /\ dedupes[passes[p].dedupe].pc = "return"
  /\ dedupes' = [dedupes EXCEPT ![passes[p].dedupe] = IdleDedupe]
  /\ passes' = [passes EXCEPT ![p] = EnforceNext([passes[p] EXCEPT !.dedupe = 0])]
  /\ UNCHANGED <<order, tabs, tabGroups, storage, timers, events, organizingWindows,
                 organizeTimers, autoCloseTimers, assigns, closers, budget, hist>>

\* part_000:513-530: the second query answers; without a grouped tab the
\* call returns, else the ungrouped tabs are to go behind the last grouped one
GroupsRequery(p) ==
  /\ passes[p].pc = "requery"
  /\ LET w == passes[p].windowId
         allTabs == QueryWindow(order, w)
         ungrouped == SelectSeq(allTabs, LAMBDA t : ~tabs[t.id].pinned
                                            /\ tabs[t.id].groupId = TAB_GROUP_ID_NONE)
         groupedTabs == SelectSeq(allTabs, LAMBDA t : ~tabs[t.id].pinned
                                              /\ tabs[t.id].groupId # TAB_GROUP_ID_NONE)
     IN IF groupedTabs = <<>> \/ ungrouped = <<>> THEN GroupsEnd(p)
        ELSE /\ passes' = [passes EXCEPT
                   ![p].orderedUngroupedTabIds = [i \in 1..Len(ungrouped) |-> ungrouped[i].id],
                   ![p].targetIndex =
                      Max({groupedTabs[i].index : i \in 1..Len(groupedTabs)}) + 1,
                   ![p].pc = "moveTab"]
             /\ UNCHANGED organizingWindows
  /\ UNCHANGED <<order, tabs, tabGroups, storage, timers, events, organizeTimers,
                 autoCloseTimers, dedupes, assigns, closers, budget, hist>>

\* part_000:533-538: chrome.tabs.move(tabId, {index: targetIndex}) answers,
\* an error swallowed; after the last tab the call ends
GroupsMoveTab(p) ==
  /\ passes[p].pc = "moveTab"
  /\ LET r == passes[p]
         res == HostMoveTab(order, tabs, tabGroups, Head(r.orderedUngroupedTabIds),
                            r.targetIndex)
     IN /\ order' = res.order /\ tabs' = res.tabs /\ tabGroups' = res.tabGroups
        /\ events' = events \cup res.events
        /\ IF Len(r.orderedUngroupedTabIds) = 1 THEN GroupsEnd(p)
           ELSE /\ passes' = [passes EXCEPT ![p].orderedUngroupedTabIds = Tail(@),
                                            ![p].targetIndex = @ + 1]
                /\ UNCHANGED organizingWindows
  /\ UNCHANGED <<storage, timers, organizeTimers, autoCloseTimers, dedupes, assigns,
                 closers, budget, hist>>

\* the group events heard in a behaviour
MaxCalls == 3

\* chrome.tabGroups.onCreated and onUpdated listeners, part_000:707-719: for
\* a titled group dedupeGroups is called and then organizeGroupsInWindow;
\* hist.calls counts the events heard
OnGroupChanged(e, d, p) ==
  /\ e \in events /\ e.type \in {"tabGroups.onCreated", "tabGroups.onUpdated"}
  /\ dedupes[d].pc = "idle" /\ \A c \in DedupeIds : c < d => dedupes[c].pc # "idle"
  /\ passes[p].pc = "idle" /\ \A q \in PassIds : q < p => passes[q].pc # "idle"
  /\ hist.calls < MaxCalls
  /\ hist' = [hist EXCEPT !.calls = @ + 1]
  /\ events' = events \ {e}
  /\ IF e.group.title # "" /\ e.windowId # NoWindow
     THEN /\ dedupes' = dedupeGroups(dedupes, d, e.windowId, e.group.title, e.group.color)
          /\ LET r == organizeGroupsInWindow(organizingWindows, passes, p, e.windowId)
             IN organizingWindows' = r.organizingWindows /\ passes' = r.passes
     ELSE UNCHANGED <<dedupes, organizingWindows, passes>>
  /\ UNCHANGED <<order, tabs, tabGroups, storage, timers, organizeTimers,
                 autoCloseTimers, assigns, closers, budget>>

\* an event no listener of part_000 acts on: a moved tab or group, a
\* removed group
Unheard(e) ==
  /\ e \in events /\ e.type \notin {"tabGroups.onCreated", "tabGroups.onUpdated"}
  /\ events' = events \ {e}
  /\ UNCHANGED <<order, tabs, tabGroups, storage, timers, organizingWindows,
                 organizeTimers, autoCloseTimers, passes, dedupes, assigns, closers,
                 budget, hist>>

\* the group-updated events the host has dispatched and the worker has not
\* yet heard: the user has given groups 1 and 2 the same title
GroupsEvents ==
  { Event("tabGroups.onUpdated", 1, 0, [id |-> 1, title |-> OtherTitle, color |-> "grey"]),
    Event("tabGroups.onUpdated", 1, 0, [id |-> 2, title |-> OtherTitle, color |-> "grey"]) }

\* Window 1 with tab 3 before the user's groups 1 and 2 of the same title,
\* of tab 1 on the host of the stored rule and of tab 2 on another host;
\* GroupsEvents wait to be heard.
InitGroups ==
  /\ order = [w \in Windows |-> IF w = 1 THEN <<3, 1, 2>> ELSE <<>>]
  /\ tabs = [t \in TabIds |->
               [pinned |-> FALSE,
                groupId |-> IF t = 3 THEN TAB_GROUP_ID_NONE ELSE t,
                url |-> IF t = 2 THEN KeepUrl ELSE CloseUrl]]
  /\ tabGroups = [g \in GroupIds |->
                    IF g \in {1, 2} THEN [title |-> OtherTitle, color |-> "grey"] ELSE NoGroup]
  /\ storage = [groupingRules |-> RuleStore, autoClosePatterns |-> <<>>]
  /\ timers = {}
  /\ organizeTimers = [w \in Windows |-> NoTimer]
  /\ autoCloseTimers = [t \in TabIds |-> NoTimer]
  /\ events = GroupsEvents
  /\ organizingWindows = {}
  /\ passes = [p \in PassIds |-> IdlePass]
  /\ dedupes = [d \in DedupeIds |-> IdleDedupe]
  /\ assigns = [a \in AssignIds |-> IdleAssign]
  /\ closers = [c \in CloserIds |-> IdleCloser]
  /\ budget = 0
  /\ hist = NoHist

NextGroups ==
  \/ \E e \in events, d \in DedupeIds, p \in PassIds : OnGroupChanged(e, d, p)
  \/ \E e \in events : Unheard(e)
  \/ \E p \in PassIds : GroupsReadAll(p)
  \/ \E p \in PassIds : GroupsUngroup(p)
  \/ \E p \in PassIds : GroupsEnsureQuery(p)
  \/ \E p \in PassIds : GroupsEnsureGroup(p)
  \/ \E p \in PassIds : GroupsEnsureNew(p)
  \/ \E p \in PassIds : GroupsEnsureUpdate(p)
  \/ \E p \in PassIds : GroupsAfterDedupe(p)
  \/ \E p \in PassIds : GroupsRequery(p)
  \/ \E p \in PassIds : GroupsMoveTab(p)
  \/ \E d \in DedupeIds : DedupeQueryGroups(d)
  \/ \E d \in DedupeIds : DedupeQueryTabs(d)
  \/ \E d \in DedupeIds : DedupeGroup(d)
  \/ \E d \in DedupeIds : DedupeUpdate(d)
  \/ \E d \in DedupeIds : DedupeReturn(d)

SpecGroups == InitGroups /\ [][NextGroups]_vars

\* C36: in the earlier organizer a window is flagged while a pass of it
\* runs, a call that finds the flag set leaves it set, and no two passes of
\* one window run their body at the same time.
C36_OneBodyPerWindow ==
  \A w \in Windows :
     /\ Cardinality(Running(passes, w)) <= 1
     /\ Running(passes, w) # {} => w \in organizingWindows

\* ------------------------------------------------ the loop of the dedupes
\* the dedupes and the listeners of the events they cause, nobody else
\* changing a group; the debounce timer of the organizer does not expire.
\* The rule stored is for DedupeTitle, the groups titled OtherTitle are the
\* user's; an event is pending for every group of window 1.
InitLoop ==
  /\ \E l \in Layouts : order = LayoutOrder(l) /\ tabs = LayoutTabs(l)
  /\ \E ti \in [GroupIds -> {DedupeTitle, OtherTitle}] :
       tabGroups = Collect(order, tabs, [g \in GroupIds |-> [title |-> ti[g], color |-> GroupColor]])
  /\ storage = [groupingRules |-> RuleStore, autoClosePatterns |-> <<>>]
  /\ timers = {}
  /\ organizeTimers = [w \in Windows |-> NoTimer]
  /\ autoCloseTimers = [t \in TabIds |-> NoTimer]
  /\ events = {Event("tabGroups.onUpdated", 1, 0, GroupInfo(tabGroups, g)) :
                 g \in GroupsOfWindow(order, tabs, 1)}
  /\ organizingWindows = {}
  /\ passes = [p \in PassIds |-> IdlePass]
  /\ dedupes = [d \in DedupeIds |-> IdleDedupe]
  /\ assigns = [a \in AssignIds |-> IdleAssign]
  /\ closers = [c \in CloserIds |-> IdleCloser]
  /\ budget = 0
  /\ hist = [NoHist EXCEPT !.was =
                [t \in TabIds |-> IF tabs[t].groupId = TAB_GROUP_ID_NONE THEN NoGroupInfo
                                  ELSE GroupInfo(tabGroups, tabs[t].groupId)]]

NextLoop ==
  \/ \E e \in events, d \in DedupeIds : OnGroupUpdated(e, d)
  \/ \E d \in DedupeIds : DedupeQueryGroups(d)
  \/ \E d \in DedupeIds : DedupeQueryTabs(d)
  \/ \E d \in DedupeIds : DedupeGroup(d)
  \/ \E d \in DedupeIds : DedupeUpdate(d)
  \/ \E d \in DedupeIds : DedupeReturn(d)
  \/ \E e \in events : OnMoved(e)

\* the host answers every call and dispatches every event
SpecLoop == InitLoop /\ [][NextLoop]_vars /\ WF_vars(NextLoop)

\* C37: the update of a dedupe leaves at most one group of its title in the
\* window, so that the dedupe its event starts changes nothing, and the
\* dedupes come to rest: in the end no event is pending and no call runs.
C37_LoopEnds ==
  /\ [][\A d \in DedupeIds :
          dedupes[d].pc = "update" /\ dedupes'[d].pc = "return" /\ ~dedupes'[d].failed
            => Cardinality(SameTitle(order', tabs', tabGroups', dedupes[d].windowId,
                                     dedupes[d].title)) <= 1]_vars
  /\ <>[](events = {} /\ \A d \in DedupeIds : dedupes[d].pc = "idle")

\* every event is heard and every call has ended after a dedupe has merged
\* groups and updated the group left
C37_Witness ==
  /\ events = {} /\ \A d \in DedupeIds : dedupes[d].pc = "idle"
  /\ \E w \in Windows : DebounceTimers(w) # {}
  /\ Cardinality(SameTitle(order, tabs, tabGroups, 1, DedupeTitle)) = 1
  /\ Cardinality(Range(TabsOfGroup(order, tabs,
                   Min(SameTitle(order, tabs, tabGroups, 1, DedupeTitle))))) = MaxTabs

\* the tabs that were in a group titled title at the start
WasTitled(title) ==
  {t \in TabIds : hist.was[t].id # TAB_GROUP_ID_NONE /\ hist.was[t].title = title}

\* C38: when the dedupes started by the group-updated events have come to
\* rest, the groups of the window that had the same title, a title of no
\* stored rule, are one group, the one of the lowest id, and it holds the
\* tabs of them all.
C38_UserGroupsMerged ==
  /\ events = {} /\ \A d \in DedupeIds : dedupes[d].pc = "idle"
  /\ OtherTitle \notin RuleTitles
  /\ WasTitled(OtherTitle) # {}
  => LET lowest == Min({hist.was[t].id : t \in WasTitled(OtherTitle)})
     IN /\ SameTitle(order, tabs, tabGroups, 1, OtherTitle) = {lowest}
        /\ Range(TabsOfGroup(order, tabs, lowest)) = WasTitled(OtherTitle)

\* three groups of the user had the title and the dedupes are at rest
C38_Witness ==
  /\ events = {} /\ \A d \in DedupeIds : dedupes[d].pc = "idle"
  /\ OtherTitle \notin RuleTitles
  /\ Cardinality({hist.was[t].id : t \in WasTitled(OtherTitle)}) = 3

\* ------------------------------------------------ loading after a migration
\* the entries of a stored array: legacy records whose pattern is plain,
\* padded or empty, with or without a title; groups of the new schema; null
ReloadEntries ==
  {[pattern |-> q, title |-> ti, color |-> co] :
     q \in {<<"c">>, <<" ", "c">>, <<>>}, ti \in {<<>>, <<DedupeTitle>>, <<" ", DedupeTitle>>},
     co \in {"bogus", "red"}}
  \cup {[title |-> ti, color |-> GroupColor, patterns |-> << <<"c">> >>] :
          ti \in {<<DedupeTitle>>, <<" ", OtherTitle>>}}
  \cup {NullEntry}

\* the stored arrays of up to MaxRules + 1 entries
ReloadLists == UNION {[1..n -> ReloadEntries] : n \in 0..(MaxRules + 1)}

\* Window 1 with the single tab 1 on a host of no rule, one of ReloadLists
\* stored, and processTab called for the tab (part_001:443-453).
InitReload ==
  /\ order = [w \in Windows |-> IF w = 1 THEN <<1>> ELSE <<>>]
  /\ tabs = [t \in TabIds |->
               IF t = 1 THEN [pinned |-> FALSE, groupId |-> TAB_GROUP_ID_NONE,
                              url |-> Url("https:", <<"z">>, <<"/">>)]
               ELSE ClosedTab]
  /\ tabGroups = [g \in GroupIds |-> NoGroup]
  /\ \E rl \in ReloadLists : storage = [groupingRules |-> rl, autoClosePatterns |-> <<>>]
  /\ timers = {}
  /\ organizeTimers = [w \in Windows |-> NoTimer]
  /\ autoCloseTimers = [t \in TabIds |-> NoTimer]
  /\ events = {}
  /\ organizingWindows = {}
  /\ passes = [p \in PassIds |-> IdlePass]
  /\ dedupes = [d \in DedupeIds |-> IdleDedupe]
  /\ assigns = processTab([a \in AssignIds |-> IdleAssign], TabInfo(order, tabs, 1))
  /\ closers = [c \in CloserIds |-> IdleCloser]
  /\ budget = 0
  /\ hist = NoHist

\* processTab, the listener of the storage event of its write-back and the
\* sweep the listener starts
NextReload ==
  \/ \E a \in AssignIds : AssignGetGroups(a)
  \/ \E a \in AssignIds : AssignRejected(a)
  \/ \E e \in events : OnStorageChanged(e)
  \/ \E a \in AssignIds : AssignSweepQuery(a)
  \/ \E a \in AssignIds : AssignSweepNext(a)

SpecReload == InitReload /\ [][NextReload]_vars

\* C39: getGroups writes nothing when the stored array is in the new
\* schema or empty, and a getGroups call that follows a migration returns
\* the groups the migration returned and writes nothing.
C39_LoadIsIdempotent ==
  [][/\ storage.groupingRules = <<>> \/ NewSchema(storage.groupingRules)
          => storage' = storage
     /\ hist.read # <<>> /\ ~NewSchema(hist.read) /\ hist' # hist
          => hist'.groups = hist.groups /\ storage' = storage]_vars
====
